---- MODULE Spec2Model ----
(***************************************************************************)
(* Terrain geometry engine of 3DMapMaker (terrain-tiles/app/utils):        *)
(* smoothElevationData -> generateGridMesh -> applyLaplacianSmoothing ->   *)
(* createSolidMesh, each applied as one step to inputs drawn from small    *)
(* sets.                                                                   *)
(*                                                                         *)
(* Numbers.  A JavaScript number is an IEEE-754 binary64 and an element of *)
(* a Float32Array a binary32.  Both are modelled as binary floating point  *)
(* with round-to-nearest-even, an unbounded exponent and a short           *)
(* significand (DoubleBits, SingleBits): a value is <<m, e>>, standing for *)
(* m * 2^e, with m odd (or <<0, 0>> for zero).  NaN is the one extra       *)
(* value; signed zero and infinities do not arise within the bounds.       *)
(***************************************************************************)
EXTENDS Integers, Sequences, FiniteSets, TLC

\* ------------------------------------------------------------------ bounds
DoubleBits == 8
SingleBits == 5
MaxDim == 4
MaxPasses == 2
MaxDecimation == 3
MaxExportDim == 3
MaxLayers == 4
MaxTinPoints == 16
MaxTiles == 3

\* ------------------------------------------------------- floating point
Abs(n) == IF n < 0 THEN -n ELSE n
Sgn(n) == IF n < 0 THEN -1 ELSE 1
MinInt(a, b) == IF a < b THEN a ELSE b
MaxInt(a, b) == IF a > b THEN a ELSE b
Pow2(n) == 2 ^ n

RECURSIVE BitLen(_)
BitLen(a) == IF a = 0 THEN 0 ELSE 1 + BitLen(a \div 2)

Zero == <<0, 0>>
NaN == <<0, 1>>
IsNaN(x) == x = NaN

\* The canonical pair of m * 2^e: m odd, or zero.
RECURSIVE Canon(_, _)
Canon(m, e) ==
  IF m = 0 THEN Zero
  ELSE IF m % 2 = 0 THEN Canon(m \div 2, e + 1)
  ELSE <<m, e>>

\* sign * q * 2^e, with q raised by one when the dropped bits r exceed half a
\* unit, or equal it and q is odd (ties to even).
RoundTie(sign, q, r, half, e) ==
  Canon(sign * (IF r > half \/ (r = half /\ q % 2 = 1) THEN q + 1 ELSE q), e)

\* sign * a * 2^e with the low k bits of a rounded away (k > 0).
RoundShift(sign, a, e, k) ==
  RoundTie(sign, a \div Pow2(k), a % Pow2(k), Pow2(k - 1), e + k)

\* sign * a * 2^e (a >= 0) rounded to a significand of p bits.
RoundAbs(p, sign, a, e, len) ==
  IF len <= p THEN Canon(sign * a, e) ELSE RoundShift(sign, a, e, len - p)

\* m * 2^e rounded to a significand of p bits, ties to even.
Round(p, m, e) == RoundAbs(p, Sgn(m), Abs(m), e, BitLen(Abs(m)))

\* sign * (an / ad) * 2^e rounded to p bits, the quotient taken at a scale
\* of s bits; its last bit is a sticky bit that records an inexact division.
DivScaled(p, sign, an, ad, e, s) ==
  Round(p, sign * (2 * ((an * Pow2(s)) \div ad)
                   + (IF (an * Pow2(s)) % ad = 0 THEN 0 ELSE 1)), e - s - 1)

\* (n / d) * 2^e rounded to p bits (d # 0): the quotient is taken to at
\* least p + 2 bits.
DivRound(p, n, d, e) ==
  IF n = 0 THEN Zero
  ELSE DivScaled(p, Sgn(n) * Sgn(d), Abs(n), Abs(d), e,
                 MaxInt(0, p + 2 + BitLen(Abs(d)) - BitLen(Abs(n))))

FromInt(n) == Round(DoubleBits, n, 0)
\* The decimal literal n/d as the source text writes it (0.5, 1.5, 0.0001).
Literal(n, d) == DivRound(DoubleBits, n, d, 0)

FNeg(x) == IF IsNaN(x) THEN NaN ELSE <<-x[1], x[2]>>

\* The significand of x at exponent e <= x[2].
Aligned(x, e) == x[1] * Pow2(x[2] - e)

AddAt(x, y, e) == Round(DoubleBits, Aligned(x, e) + Aligned(y, e), e)

\* |x| < 2^Top(x), and |x| >= 2^(Top(x) - 1) unless x is 0.
Top(x) == x[2] + BitLen(Abs(x[1]))

\* y is below an eighth of the last place of x: x + y rounds to x.
Negligible(y, x) == Top(y) <= Top(x) - DoubleBits - 3

FAdd(x, y) ==
  CASE IsNaN(x) \/ IsNaN(y) -> NaN
    [] ~IsNaN(x) /\ ~IsNaN(y) /\ x = Zero -> y
    [] ~IsNaN(x) /\ x # Zero /\ y = Zero -> x
    [] OTHER -> IF Negligible(y, x) THEN x
                ELSE IF Negligible(x, y) THEN y
                ELSE AddAt(x, y, MinInt(x[2], y[2]))

FSub(x, y) == FAdd(x, FNeg(y))

FMul(x, y) ==
  IF IsNaN(x) \/ IsNaN(y) THEN NaN
  ELSE Round(DoubleBits, x[1] * y[1], x[2] + y[2])

\* x / y; 0 / 0 is NaN.  A nonzero x over zero (an infinity) does not arise.
FDiv(x, y) ==
  CASE IsNaN(x) \/ IsNaN(y) -> NaN
    [] y = Zero /\ x = Zero -> NaN
    [] y # Zero /\ ~IsNaN(x) /\ ~IsNaN(y) -> DivRound(DoubleBits, x[1], y[1], x[2] - y[2])

\* x < y and x <= y; false when either is NaN.
LessAt(x, y, e) == Aligned(x, e) < Aligned(y, e)

\* The sign of x: 1, -1, or 0 for zero.
Signum(x) == IF x[1] > 0 THEN 1 ELSE IF x[1] < 0 THEN -1 ELSE 0

\* By sign, then by magnitude, then digit by digit.
LessNumber(x, y) ==
  IF Signum(x) # Signum(y) THEN Signum(x) < Signum(y)
  ELSE IF Top(x) # Top(y) THEN (IF Signum(x) > 0 THEN Top(x) < Top(y) ELSE Top(x) > Top(y))
  ELSE LessAt(x, y, MinInt(x[2], y[2]))

FLess(x, y) == ~IsNaN(x) /\ ~IsNaN(y) /\ LessNumber(x, y)

FLeq(x, y) == ~IsNaN(x) /\ ~IsNaN(y) /\ ~FLess(y, x)

\* Math.min / Math.max of two numbers.
MathMin(x, y) == IF IsNaN(x) \/ IsNaN(y) THEN NaN ELSE IF FLess(y, x) THEN y ELSE x
MathMax(x, y) == IF IsNaN(x) \/ IsNaN(y) THEN NaN ELSE IF FLess(x, y) THEN y ELSE x

\* The integer square root, bit by bit.
RECURSIVE ISqrt(_)
ISqrt(n) ==
  IF n < 2 THEN n
  ELSE LET r == 2 * ISqrt(n \div 4)
       IN IF (r + 1) * (r + 1) <= n THEN r + 1 ELSE r

\* The root of big * 2^(2 * e), r being the integer root of big; the last
\* bit is a sticky bit that records an inexact root.
SqrtRounded(big, r, e) ==
  Round(DoubleBits, 2 * r + (IF r * r = big THEN 0 ELSE 1), e - 1)

\* The root of m * 2^e (e even), m scaled by 2^(2 * s).
SqrtScaled(m, e, s) == SqrtRounded(m * Pow2(2 * s), ISqrt(m * Pow2(2 * s)), (e \div 2) - s)

SqrtEven(m, e) == SqrtScaled(m, e, MaxInt(0, DoubleBits + 2 - (BitLen(m) \div 2)))

\* Math.sqrt of x >= 0, correctly rounded: the root of the significand,
\* scaled to at least DoubleBits + 2 bits.
MathSqrt(x) ==
  IF IsNaN(x) \/ x[1] < 0 THEN NaN
  ELSE IF x = Zero THEN Zero
  ELSE IF x[2] % 2 = 0 THEN SqrtEven(x[1], x[2])
  ELSE SqrtEven(2 * x[1], x[2] - 1)

\* A store into a Float32Array element: the number rounded to binary32.
ToFloat32(x) == IF IsNaN(x) THEN NaN ELSE Round(SingleBits, x[1], x[2])

\* ----------------------------------------------------------- heightfield
\* An array filled element by element, as a sequence.
Array(f) == f \o <<>>

\* e, with v evaluated first.  TLC suspends operator arguments until they are
\* used; a loop's accumulator is evaluated at every iteration rather than as
\* one chain of suspended updates at the end.
Strict(v, e) == IF v = v THEN e ELSE e

\* ElevationData (meshGenerator.ts): elevations is row-major, 1-based here,
\* so sample (x, y) is elevations[y * width + x + 1].
ElevationData(elevs, w, h, lo, hi) ==
  [elevations |-> elevs, width |-> w, height |-> h,
   minElevation |-> lo, maxElevation |-> hi]

\* min = Math.min(min, x) and max = Math.max(max, x), the running value
\* evaluated once (also where TLC keeps no suspended values, under ENABLED).
RunningMin(acc, x) == CHOOSE r \in {MathMin(v, x) : v \in {acc}} : TRUE
RunningMax(acc, x) == CHOOSE r \in {MathMax(v, x) : v \in {acc}} : TRUE

RECURSIVE FoldMin(_, _, _)
FoldMin(s, i, acc) ==
  IF i > Len(s) THEN acc ELSE FoldMin(s, i + 1, RunningMin(acc, s[i]))

RECURSIVE FoldMax(_, _, _)
FoldMax(s, i, acc) ==
  IF i > Len(s) THEN acc ELSE FoldMax(s, i + 1, RunningMax(acc, s[i]))

\* The running Math.min / Math.max over a non-empty array that starts from
\* +Infinity / -Infinity: the first element replaces the infinity.
ArrayMin(s) == FoldMin(s, 2, s[1])
ArrayMax(s) == FoldMax(s, 2, s[1])

\* A heightfield as the ingestion layer hands it over: min and max are the
\* exact extremes of the samples.
WithExtremes(elevs, w, h) ==
  ElevationData(elevs, w, h, ArrayMin(elevs), ArrayMax(elevs))

MakeHeightfield(w, h, f(_, _)) ==
  WithExtremes(Array([i \in 1..(w * h) |->
                        FromInt(f((i - 1) % w, (i - 1) \div w))]), w, h)

Dims == 2..MaxDim

FlatField(w, h) == LET f(x, y) == 10 IN MakeHeightfield(w, h, f)
PeakField(w, h, px, py) ==
  LET f(x, y) == IF x = px /\ y = py THEN 10 ELSE 0 IN MakeHeightfield(w, h, f)
RoughField(w, h) ==
  LET f(x, y) == (3 * x + 7 * y + 5 * x * y + 2) % 11 IN MakeHeightfield(w, h, f)

Heightfields ==
  UNION { {FlatField(w, h), RoughField(w, h), PeakField(w, h, 0, 0),
           PeakField(w, h, 1, 1)} : w \in Dims, h \in Dims }

\* A cliff: a deep floor, a summit in the last corner, and along the first
\* column samples just above the level halfway between the two.
SteepField(w, h) ==
  LET f(x, y) == IF x = w - 1 /\ y = h - 1 THEN 1024
                 ELSE IF x = 0 /\ y >= 1 THEN 1 ELSE -1024
  IN MakeHeightfield(w, h, f)

SteepFields == {SteepField(w, h) : w \in Dims, h \in Dims}

\* A ridge along the first row.
RidgeField(w, h) ==
  LET f(x, y) == IF y = 0 THEN 10 ELSE 0 IN MakeHeightfield(w, h, f)

RidgeFields == {RidgeField(w, h) : w \in Dims, h \in Dims}

\* ------------------------------------------------ smoothElevationData
\* Math.exp(-(kx*kx + ky*ky) / (2 * sigma * sigma)) with
\* sigma = radius * 0.5 + 0.5: the value of the exponential to four decimal
\* digits, rounded to a double.
GaussWeight(kx, ky, radius) ==
  LET d2 == kx * kx + ky * ky
  IN IF radius = 1
     THEN CASE d2 = 0 -> FromInt(1)
            [] d2 = 1 -> Literal(6065, 10000)
            [] d2 = 2 -> Literal(3679, 10000)
     ELSE CASE d2 = 0 -> FromInt(1)
            [] d2 = 1 -> Literal(8007, 10000)
            [] d2 = 2 -> Literal(6412, 10000)
            [] d2 = 4 -> Literal(4111, 10000)
            [] d2 = 5 -> Literal(3292, 10000)
            [] d2 = 8 -> Literal(1690, 10000)

\* The kernel taps <<kx, ky>> in loop order (ky outer, kx inner).
KernelTaps(radius) ==
  LET size == radius * 2 + 1
  IN Array([t \in 1..(size * size) |->
              <<((t - 1) % size) - radius, ((t - 1) \div size) - radius>>])

RECURSIVE FoldAdd(_, _, _)
FoldAdd(s, i, acc) ==
  IF i > Len(s) THEN acc ELSE Strict(acc, FoldAdd(s, i + 1, FAdd(acc, s[i])))

\* The raw weights divided by their sum.
NormalizeKernel(raw, kernelSum) ==
  Array([t \in 1..Len(raw) |-> FDiv(raw[t], kernelSum)])

RawKernel(taps, radius) ==
  Array([t \in 1..Len(taps) |-> GaussWeight(taps[t][1], taps[t][2], radius)])

SumAndNormalize(raw) == NormalizeKernel(raw, FoldAdd(raw, 1, Zero))

\* The normalized kernel, indexed like KernelTaps.
GaussKernel(radius) == SumAndNormalize(RawKernel(KernelTaps(radius), radius))

\* Whether tap t at sample (x, y) falls inside the grid.
TapInside(x, y, tap, width, height) ==
  /\ x + tap[1] >= 0 /\ x + tap[1] < width
  /\ y + tap[2] >= 0 /\ y + tap[2] < height

\* sum += current[ny * width + nx] * weight; weightSum += weight
TapAdd(acc, sample, weight) ==
  <<FAdd(acc[1], FMul(sample, weight)), FAdd(acc[2], weight)>>

\* The kernel loop at sample (x, y) from tap t on: acc is <<sum, weightSum>>,
\* and only the taps inside the grid contribute.
RECURSIVE BlurAccumulate(_, _, _, _, _, _, _, _, _)
BlurAccumulate(current, width, height, x, y, taps, kernel, t, acc) ==
  IF t > Len(taps) THEN acc
  ELSE Strict(acc,
         BlurAccumulate(current, width, height, x, y, taps, kernel, t + 1,
           IF TapInside(x, y, taps[t], width, height)
           THEN TapAdd(acc, current[(y + taps[t][2]) * width + (x + taps[t][1]) + 1],
                       kernel[t])
           ELSE acc))

\* next[y * width + x] = sum / weightSum
Quotient(acc) == FDiv(acc[1], acc[2])

\* One pass: every sample of next is written from current.
BlurPass(current, width, height, taps, kernel) ==
  Array([i \in 1..Len(current) |->
           Quotient(BlurAccumulate(current, width, height,
                                   (i - 1) % width, (i - 1) \div width,
                                   taps, kernel, 1, <<Zero, Zero>>))])

RECURSIVE BlurPasses(_, _, _, _, _, _)
BlurPasses(current, width, height, taps, kernel, passes) ==
  IF passes = 0 THEN current
  ELSE Strict(current,
         BlurPasses(BlurPass(current, width, height, taps, kernel),
                    width, height, taps, kernel, passes - 1))

\* A faulty smoothing, against which C8 is tested: no early return, at
\* least one blur pass is applied.
SmoothAtLeastOnce(d, p, r) ==
  WithExtremes(BlurPasses(d.elevations, d.width, d.height, KernelTaps(r),
                          GaussKernel(r), MaxInt(p, 1)),
               d.width, d.height)

SmoothElevationData(d, passes, radius) ==
  IF passes = 0 THEN d
  ELSE WithExtremes(BlurPasses(d.elevations, d.width, d.height,
                               KernelTaps(radius), GaussKernel(radius), passes),
                    d.width, d.height)

\* ---------------------------------------------------- calculateNormals
\* The cross product of e1 and e2.
Cross(e1, e2) ==
  << FSub(FMul(e1[2], e2[3]), FMul(e1[3], e2[2])),
     FSub(FMul(e1[3], e2[1]), FMul(e1[1], e2[3])),
     FSub(FMul(e1[1], e2[2]), FMul(e1[2], e2[1])) >>

VSub(b, a) == <<FSub(b[1], a[1]), FSub(b[2], a[2]), FSub(b[3], a[3])>>

\* The cross product of the triangle's edges b - a and c - a.
FaceNormal(a, b, c) == Cross(VSub(b, a), VSub(c, a))

\* normals[idx] += n, component by component, in a Float32Array.
AddNormal(normals, idx, n) ==
  [normals EXCEPT ![idx + 1] =
     << ToFloat32(FAdd(@[1], n[1])),
        ToFloat32(FAdd(@[2], n[2])),
        ToFloat32(FAdd(@[3], n[3])) >>]

\* One triangle's normal n added to its three vertices, and their counts.
AddToCorners(acc, tri, n) ==
  << AddNormal(AddNormal(AddNormal(acc[1], tri[1], n), tri[2], n), tri[3], n),
     [[[acc[2] EXCEPT ![tri[1] + 1] = @ + 1]
               EXCEPT ![tri[2] + 1] = @ + 1]
               EXCEPT ![tri[3] + 1] = @ + 1] >>

TriangleNormal(positions, tri) ==
  FaceNormal(positions[tri[1] + 1], positions[tri[2] + 1], positions[tri[3] + 1])

\* The accumulation loop from triangle t on; acc is <<normals, counts>>.
RECURSIVE AccumulateNormals(_, _, _, _)
AccumulateNormals(positions, indices, t, acc) ==
  IF t > Len(indices) THEN acc
  ELSE Strict(acc,
         AccumulateNormals(positions, indices, t + 1,
           AddToCorners(acc, indices[t], TriangleNormal(positions, indices[t]))))

VectorLength(n) ==
  MathSqrt(FAdd(FAdd(FMul(n[1], n[1]), FMul(n[2], n[2])), FMul(n[3], n[3])))

DivideBy(n, len) ==
  IF FLess(Zero, len)
  THEN <<ToFloat32(FDiv(n[1], len)), ToFloat32(FDiv(n[2], len)),
         ToFloat32(FDiv(n[3], len))>>
  ELSE n

NormalizeNormal(n, count) == IF count > 0 THEN DivideBy(n, VectorLength(n)) ELSE n

NormalizeAll(acc, vertexCount) ==
  Array([i \in 1..vertexCount |-> NormalizeNormal(acc[1][i], acc[2][i])])

CalculateNormals(positions, indices, vertexCount) ==
  NormalizeAll(
    AccumulateNormals(positions, indices, 1,
      << Array([i \in 1..vertexCount |-> <<Zero, Zero, Zero>>]),
         Array([i \in 1..vertexCount |-> 0]) >>),
    vertexCount)

\* ---------------------------------------------------- generateGridMesh
\* MeshOptions as generateGridMesh reads them.
MeshOptions(exaggeration, size, decimation) ==
  [verticalExaggeration |-> exaggeration, meshSize |-> size,
   decimationFactor |-> decimation]

\* A faulty grid size, against which C6 is tested: Math.floor(n / d) + 1,
\* one too many whenever d divides n.
FloorPlusOne(n, d) == (n \div d) + 1

\* Math.ceil(n / d) of two positive integers.
CeilDiv(n, d) == (n + d - 1) \div d

GridWidth(d, options) == CeilDiv(d.width, options.decimationFactor)
GridHeight(d, options) == CeilDiv(d.height, options.decimationFactor)

\* Source column (row) of grid column (row) g.
SourceCoord(g, decimation, size) == MinInt(g * decimation, size - 1)

\* A faulty range, against which C20 is tested: no fallback.  A zero range
\* then makes the z of a vertex 0 * (3 / 0 * exaggeration), which is NaN, as a
\* NaN range does.
RangeAsIs(range) == IF range = Zero THEN NaN ELSE range

\* range || 1
OrOne(range) == IF range = Zero \/ IsNaN(range) THEN FromInt(1) ELSE range

\* maxElevation - minElevation || 1
ElevationRange(d) == OrOne(FSub(d.maxElevation, d.minElevation))

ScaleFactor(d, options) ==
  FMul(FDiv(FromInt(3), ElevationRange(d)), options.verticalExaggeration)

\* (g / (gridSize - 1)) * meshSize - halfSize
MeshCoord(g, gridSize, meshSize) ==
  FSub(FMul(FDiv(FromInt(g), FromInt(gridSize - 1)), meshSize),
       FDiv(meshSize, FromInt(2)))

\* The vertex of grid cell (gx, gy), as stored in the Float32Array.
GridVertex(d, options, gx, gy, gridWidth, gridHeight, scaleFactor) ==
  << ToFloat32(MeshCoord(gx, gridWidth, options.meshSize)),
     ToFloat32(MeshCoord(gy, gridHeight, options.meshSize)),
     ToFloat32(FMul(FSub(d.elevations[
                           SourceCoord(gy, options.decimationFactor, d.height) * d.width
                           + SourceCoord(gx, options.decimationFactor, d.width) + 1],
                         d.minElevation),
                    scaleFactor)) >>

\* The vertex loop: vertex gy * gridWidth + gx.
VertexLoop(d, options, gridWidth, gridHeight, scaleFactor) ==
  Array([v \in 1..(gridWidth * gridHeight) |->
           GridVertex(d, options, (v - 1) % gridWidth, (v - 1) \div gridWidth,
                      gridWidth, gridHeight, scaleFactor)])

GridPositions(d, options) ==
  VertexLoop(d, options, GridWidth(d, options), GridHeight(d, options),
             ScaleFactor(d, options))

\* The two triangles of the cell whose corners are the given vertex indices.
QuadTriangles(topLeft, topRight, bottomLeft, bottomRight) ==
  << <<topLeft, bottomLeft, topRight>>, <<topRight, bottomLeft, bottomRight>> >>

\* The two triangles of cell (gx, gy), as vertex indices (0-based).
CellTriangles(gx, gy, gridWidth) ==
  QuadTriangles(gy * gridWidth + gx, gy * gridWidth + gx + 1,
                (gy + 1) * gridWidth + gx, (gy + 1) * gridWidth + gx + 1)

\* The index loop: triangle t (1-based) is triangle (t - 1) % 2 of cell
\* (t - 1) \div 2, cells in row-major order.
GridIndices(gridWidth, gridHeight) ==
  Array([t \in 1..((gridWidth - 1) * (gridHeight - 1) * 2) |->
           CellTriangles(((t - 1) \div 2) % (gridWidth - 1),
                         ((t - 1) \div 2) \div (gridWidth - 1),
                         gridWidth)[((t - 1) % 2) + 1]])

\* The returned object, normals computed from positions and indices.
WithNormals(positions, indices, vertexCount) ==
  [positions |-> positions, indices |-> indices,
   normals |-> CalculateNormals(positions, indices, vertexCount)]

GenerateGridMesh(d, options) ==
  WithNormals(GridPositions(d, options),
              GridIndices(GridWidth(d, options), GridHeight(d, options)),
              GridWidth(d, options) * GridHeight(d, options))

\* ---------------------------------------------- applyLaplacianSmoothing
\* Float32Array objects live in a heap (a sequence of buffers); a reference
\* is an index into it, and a buffer is a sequence of vertices <<x, y, z>>.
Alloc(h, buffer) == Append(h, buffer)

\* A faulty copy, against which C10 is tested: current = positions, the
\* same buffer.
AliasOfPositions(h, positions) == [heap |-> h, ref |-> positions]

\* current = new Float32Array(positions): a fresh copy.
CopyOfPositions(h, positions) == [heap |-> Alloc(h, h[positions]), ref |-> Len(h) + 1]

ZeroBuffer(n) == Array([v \in 1..n |-> <<Zero, Zero, Zero>>])

\* center + lambda * ((left + right + top + bottom) / 4 - center)
Damped(left, right, top, bottom, center, lambda) ==
  FAdd(center,
       FMul(lambda,
            FSub(FDiv(FAdd(FAdd(FAdd(left, right), top), bottom), FromInt(4)),
                 center)))

\* The new z of interior vertex idx, read from buffer cur.
LaplacianZ(cur, idx, gridWidth, lambda) ==
  Damped(cur[(idx - 1) + 1][3], cur[(idx + 1) + 1][3],
         cur[(idx - gridWidth) + 1][3], cur[(idx + gridWidth) + 1][3],
         cur[idx + 1][3], lambda)

\* A faulty store, against which C11 is tested: the neighbours are read
\* from next, where this pass has already written.
StoreLaplacianZInPlace(h, current, next, idx, gridWidth, lambda) ==
  [h EXCEPT ![next][idx + 1][3] =
     ToFloat32(LaplacianZ(h[next], idx, gridWidth, lambda))]

\* next[idx * 3 + 2] = the new z of vertex idx, read from current.
StoreLaplacianZ(h, current, next, idx, gridWidth, lambda) ==
  [h EXCEPT ![next][idx + 1][3] =
     ToFloat32(LaplacianZ(h[current], idx, gridWidth, lambda))]

\* The interior loop from the k-th interior vertex on (row-major): each step
\* reads heap buffer current and stores into heap buffer next.
RECURSIVE LaplacianInterior(_, _, _, _, _, _, _)
LaplacianInterior(h, current, next, gridWidth, gridHeight, lambda, k) ==
  IF k >= (gridWidth - 2) * (gridHeight - 2) THEN h
  ELSE Strict(h,
         LaplacianInterior(
           StoreLaplacianZ(h, current, next,
                           (1 + (k \div (gridWidth - 2))) * gridWidth
                           + 1 + (k % (gridWidth - 2)),
                           gridWidth, lambda),
           current, next, gridWidth, gridHeight, lambda, k + 1))

\* One pass: next.set(current), then the interior loop.
LaplacianPass(h, current, next, gridWidth, gridHeight, lambda) ==
  IF gridWidth < 3 \/ gridHeight < 3 THEN [h EXCEPT ![next] = h[current]]
  ELSE LaplacianInterior([h EXCEPT ![next] = h[current]],
                         current, next, gridWidth, gridHeight, lambda, 0)

\* The pass loop with its buffer swap; the result is the heap and the
\* reference held by current when the loop ends.
RECURSIVE LaplacianPasses(_, _, _, _, _, _, _)
LaplacianPasses(h, current, next, gridWidth, gridHeight, passes, lambda) ==
  IF passes = 0 THEN [heap |-> h, ref |-> current]
  ELSE Strict(h,
         LaplacianPasses(LaplacianPass(h, current, next, gridWidth, gridHeight, lambda),
                         next, current, gridWidth, gridHeight, passes - 1, lambda))

\* next = new Float32Array(positions.length), and the pass loop.
WithNextBuffer(cur, length, gridWidth, gridHeight, passes, lambda) ==
  LaplacianPasses(Alloc(cur.heap, ZeroBuffer(length)), cur.ref, cur.ref + 1,
                  gridWidth, gridHeight, passes, lambda)

\* positions is a reference; so is the result.
ApplyLaplacianSmoothing(h, positions, gridWidth, gridHeight, passes, lambda) ==
  IF passes = 0 THEN [heap |-> h, ref |-> positions]
  ELSE WithNextBuffer(CopyOfPositions(h, positions), Len(h[positions]),
                      gridWidth, gridHeight, passes, lambda)

\* ------------------------------------------------------ createSolidMesh
\* Edge j (0, 1, 2) of a triangle: [a, b], [b, c], [c, a].
TriangleEdge(tri, j) == <<tri[j + 1], tri[((j + 1) % 3) + 1]>>

\* The three edges of every triangle, in loop order, as <<v1, v2>>.
TriangleEdges(indices) ==
  Array([k \in 1..(3 * Len(indices)) |->
           TriangleEdge(indices[((k - 1) \div 3) + 1], (k - 1) % 3)])

\* A faulty key, against which C24 is tested: `${v1}-${v2}`, the direction
\* of the edge kept.
EdgeKeyDirected(e) == e

\* The map key `${min}-${max}` of an edge.
EdgeKey(e) == IF e[1] < e[2] THEN <<e[1], e[2]>> ELSE <<e[2], e[1]>>

EdgeCount(edges, key) == Cardinality({k \in 1..Len(edges) : EdgeKey(edges[k]) = key})

\* The edges counted once, in the map's insertion order.
CountedOnce(edges) ==
  LET Once(e) == EdgeCount(edges, EdgeKey(e)) = 1 IN SelectSeq(edges, Once)

\* Each edge as <<<<x1, y1, z1>>, <<x2, y2, z2>>>>.
EdgeVertices(positions, boundary) ==
  Array([k \in 1..Len(boundary) |->
           <<positions[boundary[k][1] + 1], positions[boundary[k][2] + 1]>>])

\* The edges counted once, with the vertices stored at their first (only)
\* occurrence.
GetBoundaryEdges(positions, indices) ==
  EdgeVertices(positions, CountedOnce(TriangleEdges(indices)))

\* Math.min over the z of every vertex.
MinZ(positions) == ArrayMin(Array([v \in 1..Len(positions) |-> positions[v][3]]))

BaseLevel(positions, baseThickness) == FSub(MinZ(positions), baseThickness)

TopTriangle(positions, tri) ==
  <<positions[tri[1] + 1], positions[tri[2] + 1], positions[tri[3] + 1]>>

\* Vertex p at baseLevel.
AtBase(p, baseLevel) == <<p[1], p[2], baseLevel>>

\* The triangle at baseLevel, second and third vertex exchanged.
BottomTriangle(positions, tri, baseLevel) ==
  << AtBase(positions[tri[1] + 1], baseLevel),
     AtBase(positions[tri[3] + 1], baseLevel),
     AtBase(positions[tri[2] + 1], baseLevel) >>

\* A faulty wall, against which C2 is tested: the second triangle repeats
\* the first, so the quad is left half open.
WallTrianglesHalfOpen(edge, baseLevel) ==
  << <<edge[1], edge[2], AtBase(edge[1], baseLevel)>>,
     <<edge[1], edge[2], AtBase(edge[1], baseLevel)>> >>

\* The two triangles of the quad below boundary edge <<p1, p2>>.
WallTriangles(edge, baseLevel) ==
  << <<edge[1], edge[2], AtBase(edge[1], baseLevel)>>,
     <<edge[2], AtBase(edge[2], baseLevel), AtBase(edge[1], baseLevel)>> >>

\* new THREE.Float32BufferAttribute(vertices, 3): every number to binary32.
StoreVertex(v) == <<ToFloat32(v[1]), ToFloat32(v[2]), ToFloat32(v[3])>>
StoreTriangle(tri) == <<StoreVertex(tri[1]), StoreVertex(tri[2]), StoreVertex(tri[3])>>

TopSurface(positions, indices) ==
  Array([t \in 1..Len(indices) |-> TopTriangle(positions, indices[t])])

BottomSurface(positions, indices, baseLevel) ==
  Array([t \in 1..Len(indices) |-> BottomTriangle(positions, indices[t], baseLevel)])

\* A faulty wall builder, against which C12 is tested: one triangle per
\* boundary edge.
SideWallsSingle(boundaryEdges, baseLevel) ==
  Array([k \in 1..Len(boundaryEdges) |->
           WallTriangles(boundaryEdges[k], baseLevel)[1]])

SideWalls(boundaryEdges, baseLevel) ==
  Array([k \in 1..(2 * Len(boundaryEdges)) |->
           WallTriangles(boundaryEdges[((k - 1) \div 2) + 1],
                         baseLevel)[((k - 1) % 2) + 1]])

\* The final geometry's position attribute, three vertices per triangle.
StoreTriangles(triangles) ==
  Array([t \in 1..Len(triangles) |-> StoreTriangle(triangles[t])])

\* The triangle soup: top, bottom, then two wall triangles per boundary edge.
SolidAt(positions, indices, baseLevel) ==
  StoreTriangles(TopSurface(positions, indices)
                 \o BottomSurface(positions, indices, baseLevel)
                 \o SideWalls(GetBoundaryEdges(positions, indices), baseLevel))

CreateSolidMesh(positions, indices, baseThickness) ==
  SolidAt(positions, indices, BaseLevel(positions, baseThickness))

\* geometry.scale(s, s, s) on a Float32Array position attribute.
ScalePositions(positions, s) ==
  Array([v \in 1..Len(positions) |->
           << ToFloat32(FMul(positions[v][1], s)),
              ToFloat32(FMul(positions[v][2], s)),
              ToFloat32(FMul(positions[v][3], s)) >>])

\* ----------------------------------------------------- generateBinarySTL
\* The char codes of 'TerrainTiles STL Export'.
HeaderText ==
  << 84, 101, 114, 114, 97, 105, 110, 84, 105, 108, 101, 115, 32,
     83, 84, 76, 32, 69, 120, 112, 111, 114, 116 >>

\* view.setUint8(i, i < header.length ? header.charCodeAt(i) : 0), i < 80
HeaderBytes ==
  Array([i \in 1..80 |-> IF i <= Len(HeaderText) THEN HeaderText[i] ELSE 0])

\* view.setUint32(offset, n, true): four bytes, the lowest first.
Uint32Bytes(n) ==
  << n % 256, (n \div 256) % 256, (n \div 65536) % 256, (n \div 16777216) % 256 >>

\* The four bytes, lowest first, of the binary32 with the given sign bit,
\* biased exponent and 23-bit fraction.
Binary32Bytes(sign, biased, fraction) ==
  << fraction % 256,
     (fraction \div 256) % 256,
     (biased % 2) * 128 + (fraction \div 65536),
     sign * 128 + (biased \div 2) >>

\* The binary32 of the nonzero number m * 2^e whose significand has len
\* bits: the exponent of the leading bit, biased by 127, and the bits below
\* the leading one moved up to 23 places.
NormalBytes(m, e, len) ==
  Binary32Bytes(IF m < 0 THEN 1 ELSE 0, e + len - 1 + 127,
                (Abs(m) - Pow2(len - 1)) * Pow2(23 - (len - 1)))

Float32Encoding(x) ==
  IF IsNaN(x) THEN <<0, 0, 192, 127>>
  ELSE IF x = Zero THEN <<0, 0, 0, 0>>
  ELSE NormalBytes(x[1], x[2], BitLen(Abs(x[1])))

\* view.setFloat32(offset, x, true): x rounded to binary32, lowest byte
\* first.  A zero is written as +0: the sign of a zero is not modelled.
Float32Bytes(x) == Float32Encoding(ToFloat32(x))

\* Three setFloat32 calls: x, y, z.
Vector3Bytes(v) == Float32Bytes(v[1]) \o Float32Bytes(v[2]) \o Float32Bytes(v[3])

\* THREE.Vector3.multiplyScalar
MultiplyScalar(v, k) == <<FMul(v[1], k), FMul(v[2], k), FMul(v[3], k)>>

\* THREE.Vector3.normalize: divideScalar(length() || 1), and divideScalar(s)
\* is multiplyScalar(1 / s).
DivideScalar(v, len) ==
  MultiplyScalar(v, FDiv(FromInt(1), IF len = Zero \/ IsNaN(len) THEN FromInt(1) ELSE len))

Normalize(v) == DivideScalar(v, VectorLength(v))

\* normal = crossVectors(edge1, edge2).normalize(), edge1 = v1 - v0 and
\* edge2 = v2 - v0.
FacetNormal(tri) == Normalize(FaceNormal(tri[1], tri[2], tri[3]))

\* A faulty record, against which C14 is tested: the normal is written after
\* the vertices.
TriangleRecordNormalLast(tri) ==
  Vector3Bytes(tri[1]) \o Vector3Bytes(tri[2]) \o Vector3Bytes(tri[3])
  \o Vector3Bytes(FacetNormal(tri)) \o <<0, 0>>

\* The 50 bytes written for one triangle: normal, v0, v1, v2, and the
\* attribute byte count setUint16(offset, 0, true).
TriangleRecord(tri) ==
  Vector3Bytes(FacetNormal(tri))
  \o Vector3Bytes(tri[1]) \o Vector3Bytes(tri[2]) \o Vector3Bytes(tri[3])
  \o <<0, 0>>

\* The record of every triangle, in order.
TriangleRecords(triangles) ==
  Array([t \in 1..Len(triangles) |-> TriangleRecord(triangles[t])])

\* The bytes of the records laid end to end.
RecordBytes(records) ==
  Array([k \in 1..(50 * Len(records)) |->
           records[((k - 1) \div 50) + 1][((k - 1) % 50) + 1]])

\* A faulty length, against which C13 is tested: the count field is left out.
BufferLengthNoCount(triangleCount) == 80 + triangleCount * 50

\* bufferLength = 80 + 4 + triangleCount * 50
BufferLength(triangleCount) == 80 + 4 + triangleCount * 50

\* The writes go to consecutive offsets from 0 on, so what the DataView
\* holds is the written bytes over the zeros of new ArrayBuffer(length);
\* a write that ends beyond length throws a RangeError and no Blob is made.
\* offset is the write offset when the function ends.
Blob(written, length) ==
  IF Len(written) > length
  THEN [buffer |-> <<>>, offset |-> 0, thrown |-> TRUE]
  ELSE [buffer |-> Array([i \in 1..length |->
                            IF i <= Len(written) THEN written[i] ELSE 0]),
        offset |-> Len(written),
        thrown |-> FALSE]

\* triangleCount = positions.count / 3; header, count, then the records.
GenerateBinarySTL(triangles) ==
  Blob(HeaderBytes \o Uint32Bytes(Len(triangles))
         \o RecordBytes(TriangleRecords(triangles)),
       BufferLength(Len(triangles)))

NoBlob == [buffer |-> <<>>, offset |-> 0, thrown |-> FALSE]

\* ------------------------------------------------ generateContourLayers
\* Math.abs
MathAbs(x) == IF IsNaN(x) THEN NaN ELSE <<Abs(x[1]), x[2]>>

\* A faulty table, against which C23 is tested: case 9 (the left column at
\* or above the threshold) joins the left and right edges.
EDGES_WITH_CASE_9_ACROSS ==
  << <<>>,
     << <<3, 0>> >>,
     << <<0, 1>> >>,
     << <<3, 1>> >>,
     << <<1, 2>> >>,
     << <<3, 0>>, <<1, 2>> >>,
     << <<0, 2>> >>,
     << <<3, 2>> >>,
     << <<2, 3>> >>,
     << <<3, 1>> >>,
     << <<0, 1>>, <<2, 3>> >>,
     << <<2, 1>> >>,
     << <<1, 3>> >>,
     << <<1, 0>> >>,
     << <<0, 3>> >>,
     <<>> >>

\* MARCHING_SQUARES_EDGES[caseIndex], at caseIndex + 1: the pairs of cell
\* edges (0 bottom, 1 right, 2 top, 3 left) a segment joins.
MARCHING_SQUARES_EDGES ==
  << <<>>,
     << <<3, 0>> >>,
     << <<0, 1>> >>,
     << <<3, 1>> >>,
     << <<1, 2>> >>,
     << <<3, 0>>, <<1, 2>> >>,
     << <<0, 2>> >>,
     << <<3, 2>> >>,
     << <<2, 3>> >>,
     << <<2, 0>> >>,
     << <<0, 1>>, <<2, 3>> >>,
     << <<2, 1>> >>,
     << <<1, 3>> >>,
     << <<1, 0>> >>,
     << <<0, 3>> >>,
     <<>> >>

\* interpolate(v1, v2, threshold)
Interpolate(v1, v2, threshold) ==
  IF FLess(MathAbs(FSub(v2, v1)), Literal(1, 10000)) THEN Literal(1, 2)
  ELSE FDiv(FSub(threshold, v1), FSub(v2, v1))

\* getEdgePoint(edge, x, y, v0, v1, v2, v3, threshold), v being
\* <<v0, v1, v2, v3>>.
GetEdgePoint(edge, x, y, v, threshold) ==
  CASE edge = 0 -> <<FAdd(FromInt(x), Interpolate(v[1], v[2], threshold)), FromInt(y)>>
    [] edge = 1 -> <<FromInt(x + 1), FAdd(FromInt(y), Interpolate(v[2], v[3], threshold))>>
    [] edge = 2 -> <<FAdd(FromInt(x), Interpolate(v[4], v[3], threshold)), FromInt(y + 1)>>
    [] edge = 3 -> <<FromInt(x), FAdd(FromInt(y), Interpolate(v[1], v[4], threshold))>>
    [] OTHER -> <<FAdd(FromInt(x), Literal(1, 2)), FAdd(FromInt(y), Literal(1, 2))>>

\* The corner samples of cell (x, y): bottom-left, bottom-right, top-right,
\* top-left.
CornerValues(d, x, y) ==
  << d.elevations[y * d.width + x + 1],
     d.elevations[y * d.width + x + 2],
     d.elevations[(y + 1) * d.width + x + 2],
     d.elevations[(y + 1) * d.width + x + 1] >>

\* v >= threshold
AtOrAbove(v, threshold) == FLeq(threshold, v)

\* caseIndex: bit k is set when corner k is at or above the threshold.
CaseIndex(v, threshold) ==
  (IF AtOrAbove(v[1], threshold) THEN 1 ELSE 0)
  + (IF AtOrAbove(v[2], threshold) THEN 2 ELSE 0)
  + (IF AtOrAbove(v[3], threshold) THEN 4 ELSE 0)
  + (IF AtOrAbove(v[4], threshold) THEN 8 ELSE 0)

\* The segments [p1, p2] the given edge pairs make in cell (x, y).
EdgeSegments(edges, x, y, v, threshold) ==
  Array([k \in 1..Len(edges) |->
           << GetEdgePoint(edges[k][1], x, y, v, threshold),
              GetEdgePoint(edges[k][2], x, y, v, threshold) >>])

CellSegments(x, y, v, threshold) ==
  EdgeSegments(MARCHING_SQUARES_EDGES[CaseIndex(v, threshold) + 1], x, y, v, threshold)

\* The march through the cells, rows outermost: c counts the cells done.
RECURSIVE MarchCells(_, _, _, _)
MarchCells(d, threshold, c, segments) ==
  IF c >= (d.width - 1) * (d.height - 1) THEN segments
  ELSE MarchCells(d, threshold, c + 1,
         segments \o CellSegments(c % (d.width - 1), c \div (d.width - 1),
                                  CornerValues(d, c % (d.width - 1), c \div (d.width - 1)),
                                  threshold))

MarchingSquares(d, threshold) ==
  IF d.width < 2 \/ d.height < 2 THEN <<>> ELSE MarchCells(d, threshold, 0, <<>>)

\* ------------------------------------------------------- connectSegments
Tolerance == Literal(1, 1000)

\* pointsEqual(p1, p2)
PointsEqual(p1, p2) ==
  /\ FLess(MathAbs(FSub(p1[1], p2[1])), Tolerance)
  /\ FLess(MathAbs(FSub(p1[2], p2[2])), Tolerance)

\* findConnecting(point, excludeIndex), searching from index i on; 0 stands
\* for -1, the indices being 1-based.
RECURSIVE FindFrom(_, _, _, _, _)
FindFrom(segments, used, point, excludeIndex, i) ==
  IF i > Len(segments) THEN 0
  ELSE IF i \in used \/ i = excludeIndex
       THEN FindFrom(segments, used, point, excludeIndex, i + 1)
  ELSE IF PointsEqual(segments[i][1], point) \/ PointsEqual(segments[i][2], point)
       THEN i
  ELSE FindFrom(segments, used, point, excludeIndex, i + 1)

\* A faulty search, against which C16 is tested: the segment just used is
\* not the only one skipped, the one after it is too.
FindConnectingSkipping(segments, used, point, excludeIndex) ==
  FindFrom(segments, used \cup {excludeIndex + 1}, point, excludeIndex, 1)

FindConnecting(segments, used, point, excludeIndex) ==
  FindFrom(segments, used, point, excludeIndex, 1)

\* The end of seg the path moves to from currentPoint.
FarEnd(seg, currentPoint) ==
  IF PointsEqual(seg[1], currentPoint) THEN seg[2] ELSE seg[1]

\* The path under construction and the segments used so far.
Walk(path, used) == [path |-> path, used |-> used]

\* "Extend path forward": push the far end of each connecting segment.
RECURSIVE ExtendForward(_, _, _, _)
ForwardStep(segments, w, currentPoint, nextIdx) ==
  IF nextIdx = 0 THEN w
  ELSE ExtendForward(segments,
                     Walk(Append(w.path, FarEnd(segments[nextIdx], currentPoint)),
                          w.used \cup {nextIdx}),
                     FarEnd(segments[nextIdx], currentPoint), nextIdx)

ExtendForward(segments, w, currentPoint, currentIdx) ==
  ForwardStep(segments, w, currentPoint,
              FindConnecting(segments, w.used, currentPoint, currentIdx))

\* "Extend path backward from start": unshift the far end.
RECURSIVE ExtendBackward(_, _, _, _)
BackwardStep(segments, w, currentPoint, prevIdx) ==
  IF prevIdx = 0 THEN w
  ELSE ExtendBackward(segments,
                      Walk(<<FarEnd(segments[prevIdx], currentPoint)>> \o w.path,
                           w.used \cup {prevIdx}),
                      FarEnd(segments[prevIdx], currentPoint), prevIdx)

ExtendBackward(segments, w, currentPoint, currentIdx) ==
  BackwardStep(segments, w, currentPoint,
               FindConnecting(segments, w.used, currentPoint, currentIdx))

\* The backward extension of a walk, from its first point.
BackwardFrom(segments, w, i) == ExtendBackward(segments, w, w.path[1], i)

\* The path that starts with segment i, extended both ways.
PathFrom(segments, used, i) ==
  BackwardFrom(segments,
               ExtendForward(segments,
                             Walk(<<segments[i][1], segments[i][2]>>, used \cup {i}),
                             segments[i][2], i),
               i)

\* "Normalize coordinates to 0-1 range"
NormalizePath(path, width, height) ==
  Array([k \in 1..Len(path) |->
           << FDiv(path[k][1], FromInt(width - 1)),
              FDiv(path[k][2], FromInt(height - 1)) >>])

\* The loop over the segments: each one not yet used starts a path.
RECURSIVE ConnectFrom(_, _, _, _, _, _)
ConnectStep(segments, width, height, i, w, paths) ==
  ConnectFrom(segments, width, height, i + 1, w.used,
              Append(paths, NormalizePath(w.path, width, height)))

ConnectFrom(segments, width, height, i, used, paths) ==
  IF i > Len(segments) THEN paths
  ELSE IF i \in used THEN ConnectFrom(segments, width, height, i + 1, used, paths)
  ELSE ConnectStep(segments, width, height, i, PathFrom(segments, used, i), paths)

ConnectSegments(segments, width, height) ==
  ConnectFrom(segments, width, height, 1, {}, <<>>)

\* threshold = minElevation + (range * i) / numLayers
Threshold(d, i, numLayers) ==
  FAdd(d.minElevation,
       FDiv(FMul(FSub(d.maxElevation, d.minElevation), FromInt(i)),
            FromInt(numLayers)))

ContourLayer(d, threshold) ==
  [elevation |-> threshold,
   paths |-> ConnectSegments(MarchingSquares(d, threshold), d.width, d.height)]

\* A faulty layer loop, against which C15 is tested: i runs up to numLayers,
\* the maximum included.
GenerateContourLayersInclusive(d, n) ==
  Array([i \in 1..n |-> ContourLayer(d, Threshold(d, i, n))])

\* generateContourLayers(data, numLayers): the layers i = 1 .. numLayers - 1.
GenerateContourLayers(d, n) ==
  Array([i \in 1..(n - 1) |-> ContourLayer(d, Threshold(d, i, n))])

\* --------------------------------------------------- delaunayTriangulate
\* The points are grid points and the super-triangle's corners lie on
\* half-integers, so every product and sum below is exact in doubles; the
\* model computes with the coordinates doubled, in integers.
Doubled(p) == <<2 * p[1], 2 * p[2]>>

RECURSIVE FoldMinInt(_, _, _, _)
FoldMinInt(points, c, i, acc) ==
  IF i > Len(points) THEN acc
  ELSE FoldMinInt(points, c, i + 1, MinInt(acc, points[i][c]))

RECURSIVE FoldMaxInt(_, _, _, _)
FoldMaxInt(points, c, i, acc) ==
  IF i > Len(points) THEN acc
  ELSE FoldMaxInt(points, c, i + 1, MaxInt(acc, points[i][c]))

\* The bounding box <<minX, minY, maxX, maxY>> (points is not empty).
BoundingBox(points) ==
  << FoldMinInt(points, 1, 2, points[1][1]), FoldMinInt(points, 2, 2, points[1][2]),
     FoldMaxInt(points, 1, 2, points[1][1]), FoldMaxInt(points, 2, 2, points[1][2]) >>

\* The super-triangle p1, p2, p3 (doubled) of the box: deltaMax is
\* Math.max(dx, dy) * 10.
SuperCorners(minX, minY, maxX, maxY, deltaMax) ==
  << <<2 * (minX - deltaMax), 2 * (minY - deltaMax)>>,
     <<2 * minX + (maxX - minX), 2 * (maxY + deltaMax)>>,
     <<2 * (maxX + deltaMax), 2 * (minY - deltaMax)>> >>

SuperTriangle(box) ==
  SuperCorners(box[1], box[2], box[3], box[4],
               MaxInt(box[3] - box[1], box[4] - box[2]) * 10)

\* allPoints = [...points, p1, p2, p3]
AllPoints(points) ==
  Array([i \in 1..Len(points) |-> Doubled(points[i])])
  \o SuperTriangle(BoundingBox(points))

\* det and orient of inCircumcircle, a, b, c taken relative to p for det.
CircleDet(ax, ay, bx, by, cx, cy) ==
  (ax * ax + ay * ay) * (bx * cy - cx * by)
  - (bx * bx + by * by) * (ax * cy - cx * ay)
  + (cx * cx + cy * cy) * (ax * by - bx * ay)

Orient(a, b, c) ==
  (a[1] - c[1]) * (b[2] - c[2]) - (a[2] - c[2]) * (b[1] - c[1])

\* inCircumcircle(p, a, b, c): orient > 0 ? det > 0 : det < 0
InCircumcircle(p, a, b, c) ==
  IF Orient(a, b, c) > 0
  THEN CircleDet(a[1] - p[1], a[2] - p[2], b[1] - p[1], b[2] - p[2],
                 c[1] - p[1], c[2] - p[2]) > 0
  ELSE CircleDet(a[1] - p[1], a[2] - p[2], b[1] - p[1], b[2] - p[2],
                 c[1] - p[1], c[2] - p[2]) < 0

\* The elements of s at the positions in keep, in order.
RECURSIVE KeepFrom(_, _, _)
KeepFrom(s, keep, i) ==
  IF i > Len(s) THEN <<>>
  ELSE (IF i \in keep THEN <<s[i]>> ELSE <<>>) \o KeepFrom(s, keep, i + 1)

Keep(s, keep) == KeepFrom(s, keep, 1)

\* The positions of the triangles whose circumcircle contains point i.
BadTriangles(all, triangles, i) ==
  {t \in 1..Len(triangles) :
     InCircumcircle(all[i], all[triangles[t][1]], all[triangles[t][2]],
                    all[triangles[t][3]])}

\* The three edges of a triangle: (i, j), (j, k), (k, i).
HoleEdges(tri) == << <<tri[1], tri[2]>>, <<tri[2], tri[3]>>, <<tri[3], tri[1]>> >>

SameEdge(e, f) ==
  \/ e[1] = f[1] /\ e[2] = f[2]
  \/ e[1] = f[2] /\ e[2] = f[1]

\* A faulty search, against which C25 is tested: no edge is taken for
\* shared, so the fan is built on every edge of every bad triangle.
SharedNever(triangles, bad, t, e) == FALSE

\* The edge is an edge of another bad triangle.
Shared(triangles, bad, t, e) ==
  \E o \in bad \ {t} : \E k \in 1..3 : SameEdge(e, HoleEdges(triangles[o])[k])

\* The edges of bad triangle t that no other bad triangle has.
UnsharedEdges(triangles, bad, t) ==
  Keep(HoleEdges(triangles[t]),
       {k \in 1..3 : ~Shared(triangles, bad, t, HoleEdges(triangles[t])[k])})

\* The boundary of the polygonal hole: the bad triangles in order, the
\* edges of each in order.
RECURSIVE PolygonFrom(_, _, _)
PolygonFrom(triangles, bad, t) ==
  IF t > Len(triangles) THEN <<>>
  ELSE (IF t \in bad THEN UnsharedEdges(triangles, bad, t) ELSE <<>>)
       \o PolygonFrom(triangles, bad, t + 1)

\* The triangles {i: edge.i, j: edge.j, k: i} pushed for the hole.
FanOf(polygon, i) ==
  Array([e \in 1..Len(polygon) |-> <<polygon[e][1], polygon[e][2], i>>])

\* One insertion: the bad triangles go, the fan of the hole comes.
Retriangulate(triangles, bad, i) ==
  Keep(triangles, (1..Len(triangles)) \ bad)
  \o FanOf(PolygonFrom(triangles, bad, 1), i)

\* "Add each point one at a time"
RECURSIVE InsertPoints(_, _, _, _)
InsertPoints(all, n, triangles, i) ==
  IF i > n THEN triangles
  ELSE InsertPoints(all, n,
                    Retriangulate(triangles, BadTriangles(all, triangles, i), i),
                    i + 1)

\* A faulty end, against which C26 is tested: no triangle is discarded.
WithSuper(triangles, n) == triangles

\* The triangles left that do not touch the super-triangle.
WithoutSuper(triangles, n) ==
  Keep(triangles,
       {t \in 1..Len(triangles) :
          triangles[t][1] <= n /\ triangles[t][2] <= n /\ triangles[t][3] <= n})

\* delaunayTriangulate(points): the triangles as index triples (from 1).
DelaunayTriangulate(points) ==
  IF Len(points) < 3 THEN <<>>
  ELSE WithoutSuper(
         InsertPoints(AllPoints(points), Len(points),
                      << <<Len(points) + 1, Len(points) + 2, Len(points) + 3>> >>, 1),
         Len(points))

\* --------------------------------------------------- generateAdaptiveTIN
\* A TINPoint at grid point (x, y); originalIndex is y * width + x.
TINPoint(d, x, y) ==
  [x |-> x, y |-> y, z |-> d.elevations[y * d.width + x + 1],
   originalIndex |-> y * d.width + x]

\* A faulty start, against which C18 is tested: the last corner is left out.
CornerPointsButLast(d) ==
  << TINPoint(d, 0, 0), TINPoint(d, d.width - 1, 0), TINPoint(d, 0, d.height - 1) >>

\* "Start with corner points"
CornerPoints(d) ==
  << TINPoint(d, 0, 0), TINPoint(d, d.width - 1, 0),
     TINPoint(d, 0, d.height - 1), TINPoint(d, d.width - 1, d.height - 1) >>

\* Math.max(1, Math.floor(Math.max(width, height) / 20))
EdgeStep(d) == MaxInt(1, MaxInt(d.width, d.height) \div 20)

\* for (x = edgeStep; x < width - 1; x += edgeStep): bottom and top.
RECURSIVE HorizontalEdgePoints(_, _, _)
HorizontalEdgePoints(d, step, x) ==
  IF x >= d.width - 1 THEN <<>>
  ELSE <<TINPoint(d, x, 0), TINPoint(d, x, d.height - 1)>>
       \o HorizontalEdgePoints(d, step, x + step)

\* for (y = edgeStep; y < height - 1; y += edgeStep): left and right.
RECURSIVE VerticalEdgePoints(_, _, _)
VerticalEdgePoints(d, step, y) ==
  IF y >= d.height - 1 THEN <<>>
  ELSE <<TINPoint(d, 0, y), TINPoint(d, d.width - 1, y)>>
       \o VerticalEdgePoints(d, step, y + step)

\* The corners and the edge points: what is selected whatever maxPoints is.
MandatoryPoints(d) ==
  CornerPoints(d) \o HorizontalEdgePoints(d, EdgeStep(d), EdgeStep(d))
  \o VerticalEdgePoints(d, EdgeStep(d), EdgeStep(d))

DefaultMaxError == Literal(1, 2)

\* errorThreshold = maxError * elevationRange
ErrorThreshold(d, maxError) == FMul(maxError, ElevationRange(d))

\* Math.abs((left + right + top + bottom) / 4 - center)
Curvature(left, right, top, bottom, center) ==
  MathAbs(FSub(FDiv(FAdd(FAdd(FAdd(left, right), top), bottom), FromInt(4)), center))

\* Math.sqrt(dx * dx + dy * dy)
Hypotenuse(dx, dy) == MathSqrt(FAdd(FMul(dx, dx), FMul(dy, dy)))

\* dx = (right - left) / 2, dy = (bottom - top) / 2
Gradient(left, right, top, bottom) ==
  Hypotenuse(FDiv(FSub(right, left), FromInt(2)), FDiv(FSub(bottom, top), FromInt(2)))

\* score = laplacian + gradient * 0.5 of the sample at idx (from 0).
Score(d, idx) ==
  FAdd(Curvature(d.elevations[idx], d.elevations[idx + 2],
                 d.elevations[idx + 1 - d.width], d.elevations[idx + 1 + d.width],
                 d.elevations[idx + 1]),
       FMul(Gradient(d.elevations[idx], d.elevations[idx + 2],
                     d.elevations[idx + 1 - d.width], d.elevations[idx + 1 + d.width]),
            Literal(1, 2)))

Scored(idx, score) == [index |-> idx, score |-> score]

\* The interior samples in row order, y outermost, with their scores; c
\* counts the interior samples done.
InteriorScores(d) ==
  Array([c \in 1..((d.width - 2) * (d.height - 2)) |->
           Scored((((c - 1) \div (d.width - 2)) + 1) * d.width
                    + ((c - 1) % (d.width - 2)) + 1,
                  Score(d, (((c - 1) \div (d.width - 2)) + 1) * d.width
                             + ((c - 1) % (d.width - 2)) + 1))])

\* if (score > errorThreshold * 0.1)
Significant(scores, limit) ==
  Keep(scores, {c \in 1..Len(scores) : FLess(limit, scores[c].score)})

ImportanceScores(d, maxError) ==
  IF d.width < 3 \/ d.height < 3 THEN <<>>
  ELSE Significant(InteriorScores(d), FMul(ErrorThreshold(d, maxError), Literal(1, 10)))

\* sort((a, b) => b.score - a.score): descending and stable, so an entry
\* goes behind every entry whose score is not below its own.
RECURSIVE InsertByScore(_, _, _)
InsertByScore(sorted, entry, i) ==
  IF i > Len(sorted) THEN Append(sorted, entry)
  ELSE IF FLess(sorted[i].score, entry.score)
       THEN SubSeq(sorted, 1, i - 1) \o <<entry>> \o SubSeq(sorted, i, Len(sorted))
  ELSE InsertByScore(sorted, entry, i + 1)

RECURSIVE SortFrom(_, _, _)
SortFrom(scores, i, sorted) ==
  IF i > Len(scores) THEN sorted
  ELSE SortFrom(scores, i + 1, InsertByScore(sorted, scores[i], 1))

SortByScore(scores) == SortFrom(scores, 1, <<>>)

\* Array.prototype.slice(0, end): a negative end counts from the end of the
\* array.
SliceTo(s, end) ==
  SubSeq(s, 1, IF end < 0 THEN MaxInt(Len(s) + end, 0) ELSE MinInt(end, Len(s)))

\* topPoints = importanceScores.slice(0, remainingSlots)
TopPoints(scores, remainingSlots) == SliceTo(scores, remainingSlots)

\* The TINPoints of the entries taken.
PointsOf(d, entries) ==
  Array([e \in 1..Len(entries) |->
           TINPoint(d, entries[e].index % d.width, entries[e].index \div d.width)])

\* The selection after the ranked interior points are pushed.
WithTopPoints(d, selected, scores, maxPts) ==
  selected \o PointsOf(d, TopPoints(scores, maxPts - Len(selected)))

\* Math.floor(Math.sqrt(a / b)), a and b positive integers.
RECURSIVE FloorSqrtFrom(_, _, _)
FloorSqrtFrom(a, b, g) ==
  IF (g + 1) * (g + 1) * b > a THEN g ELSE FloorSqrtFrom(a, b, g + 1)

\* gridStep = Math.max(2, Math.floor(Math.sqrt(width * height / room)))
GridStep(d, room) == MaxInt(2, FloorSqrtFrom(d.width * d.height, room, 0))

\* The baseline grid: y and x from gridStep in steps of gridStep; the inner
\* loop breaks once maxPoints is reached, an index already selected is
\* skipped.
RECURSIVE BaselineGrid(_, _, _, _, _, _)
BaselineGrid(d, step, maxPts, x, y, selected) ==
  IF y >= d.height - 1 THEN selected
  ELSE IF x >= d.width - 1 \/ Len(selected) >= maxPts
       THEN BaselineGrid(d, step, maxPts, step, y + step, selected)
  ELSE IF \E k \in 1..Len(selected) : selected[k].originalIndex = y * d.width + x
       THEN BaselineGrid(d, step, maxPts, x + step, y, selected)
  ELSE BaselineGrid(d, step, maxPts, x + step, y, Append(selected, TINPoint(d, x, y)))

\* if (selectedPoints.length < maxPoints * 0.8) ...
WithBaselineGrid(d, selected, maxPts) ==
  IF FLess(FromInt(Len(selected)), FMul(FromInt(maxPts), Literal(4, 5)))
  THEN BaselineGrid(d, GridStep(d, maxPts - Len(selected)), maxPts,
                    GridStep(d, maxPts - Len(selected)),
                    GridStep(d, maxPts - Len(selected)), selected)
  ELSE selected

SelectPoints(d, maxError, maxPts) ==
  WithBaselineGrid(d,
    WithTopPoints(d, MandatoryPoints(d),
                  SortByScore(ImportanceScores(d, maxError)), maxPts),
    maxPts)

\* points2D = selectedPoints.map(p => ({x: p.x, y: p.y}))
Points2D(points) == Array([k \in 1..Len(points) |-> <<points[k].x, points[k].y>>])

Triangulated(points) == [points |-> points, triangles |-> DelaunayTriangulate(Points2D(points))]

\* generateAdaptiveTIN(data, maxError, maxPoints)
GenerateAdaptiveTIN(d, maxError, maxPts) == Triangulated(SelectPoints(d, maxError, maxPts))

\* ---------------------------------------------- extractTileElevationData
\* tileMin and tileMax of a tile with no sample: the values the loop starts
\* from.
PositiveInfinity == "Infinity"
NegativeInfinity == "-Infinity"

\* Math.floor(width / totalCols), Math.floor(height / totalRows)
TileWidth(fullData, totalCols) == fullData.width \div totalCols
TileHeight(fullData, totalRows) == fullData.height \div totalRows

\* startX, endX of column col; startY, endY of row row likewise.
TileStart(index, size) == index * size
TileEnd(index, total, size, full) ==
  IF index = total - 1 THEN full ELSE TileStart(index, size) + size

\* elevations[elevIndex] ?? minElevation
SampleOr(fullData, elevIndex) ==
  IF elevIndex + 1 \in 1..Len(fullData.elevations)
  THEN fullData.elevations[elevIndex + 1] ELSE fullData.minElevation

\* tileElevations: rows j from startY, columns i from startX.
TileElevations(fullData, startX, startY, actualTileWidth, actualTileHeight) ==
  Array([k \in 1..(actualTileWidth * actualTileHeight) |->
           SampleOr(fullData,
                    (startY + ((k - 1) \div actualTileWidth)) * fullData.width
                    + startX + ((k - 1) % actualTileWidth))])

\* The tile with its running minimum and maximum.
TileWithExtremes(elevs, actualTileWidth, actualTileHeight) ==
  IF elevs = <<>>
  THEN ElevationData(elevs, actualTileWidth, actualTileHeight,
                     PositiveInfinity, NegativeInfinity)
  ELSE WithExtremes(elevs, actualTileWidth, actualTileHeight)

TileBetween(fullData, startX, startY, endX, endY) ==
  TileWithExtremes(TileElevations(fullData, startX, startY, endX - startX, endY - startY),
                   endX - startX, endY - startY)

\* extractTileElevationData(fullData, row, col, totalRows, totalCols)
ExtractTileElevationData(fullData, tileRow, tileCol, totalRows, totalCols) ==
  TileBetween(fullData,
              TileStart(tileCol, TileWidth(fullData, totalCols)),
              TileStart(tileRow, TileHeight(fullData, totalRows)),
              TileEnd(tileCol, totalCols, TileWidth(fullData, totalCols), fullData.width),
              TileEnd(tileRow, totalRows, TileHeight(fullData, totalRows), fullData.height))

\* exportTerrainToSTL(tileData, ...) throws when generateGridMesh asks for
\* a Uint32Array of negative length: triangleCount * 3 with
\* triangleCount = (gridWidth - 1) * (gridHeight - 1) * 2 at decimation 1.
ExportThrows(tileData) ==
  (tileData.width - 1) * (tileData.height - 1) * 2 * 3 < 0

\* ----------------------------------------------------------- the system
VARIABLES
  pc,            \* "input", "smoothed", "meshed", "relaxed" or "solid"
  data,          \* the ElevationData handed to the engine
  passes,        \* smoothElevationData: passes
  radius,        \* smoothElevationData: radius
  smoothed,      \* the ElevationData smoothElevationData returned
  options,       \* generateGridMesh: its MeshOptions
  heap,          \* the Float32Array position buffers allocated so far
  mesh,          \* what generateGridMesh returned; positions is a reference
  laplacianPasses, \* applyLaplacianSmoothing: passes
  terrain,       \* the mesh after the Laplacian step; positions is a reference
  baseThickness, \* exportToSTL: options.baseThickness
  tileSize,      \* exportToSTL: options.tileSize
  solid,         \* the triangles of the geometry createSolidMesh returned
  stl,           \* the Blob generateBinarySTL returned: its bytes and final offset
  numLayers,     \* generateContourLayers: numLayers
  layers,        \* the ContourLayer[] generateContourLayers returned
  maxPoints,     \* generateAdaptiveTIN: maxPoints
  tin,           \* the points generateAdaptiveTIN returned
  rerun,         \* a second generateGridMesh call: its options and its mesh
  tileRows,      \* terrainDimensions.tileRows
  tileCols,      \* terrainDimensions.tileCols
  isExporting,   \* page state isExporting
  exportProgress, \* page state exportProgress: <<tileNum, totalTiles>>, <<>> for ''
  error,         \* page state error: "null" or the message set
  row,           \* handleExportSTL: the loop's row
  col,           \* handleExportSTL: the loop's col
  tileData,      \* the tile last handed to exportTerrainToSTL
  log            \* what the run has done so far, as events [event, row, col]

pipelineVars == <<passes, radius, smoothed, options, heap, mesh,
                  laplacianPasses, terrain, baseThickness, tileSize, solid, stl>>
contourVars == <<numLayers, layers>>
tinVars == <<maxPoints, tin>>
runVars == <<tileRows, tileCols, isExporting, exportProgress, error, row, col,
             tileData, log>>
pageVars == <<rerun, runVars>>

vars == <<pc, data, pipelineVars, contourVars, tinVars, pageVars>>

NoData == ElevationData(<<>>, 0, 0, Zero, Zero)
NoMesh == [positions |-> 0, indices |-> <<>>, normals |-> <<>>]

\* The inputs the steps draw from.  A verticalExaggeration of 0 is the
\* configuration value the input contract excludes.
PassCounts == 0..MaxPasses
Radii == {1, 2}
Decimations == 1..MaxDecimation
Exaggerations == {Zero, Literal(3, 2)}
DefaultMeshSize == FromInt(10)
DefaultLambda == Literal(1, 2)

\* No second call yet.
NoRerun == [options |-> MeshOptions(Literal(3, 2), DefaultMeshSize, 1), mesh |-> NoMesh]
\* The export settings tried: the default tile on a base of 5, and a tile of
\* twice the size with no base.
ExportSettings ==
  {[tileSize |-> FromInt(10), baseThickness |-> FromInt(5)],
   [tileSize |-> FromInt(20), baseThickness |-> Zero]}

\* The state before any call, the heightfield being one of fields and the
\* tile grid having its rows and columns in grid.
StartWith(fields, grid) ==
  /\ pc = "input"
  /\ data \in fields
  /\ passes = 0
  /\ radius = 1
  /\ smoothed = NoData
  /\ options = MeshOptions(Literal(3, 2), DefaultMeshSize, 1)
  /\ heap = <<>>
  /\ mesh = NoMesh
  /\ laplacianPasses = 0
  /\ terrain = NoMesh
  /\ baseThickness = Zero
  /\ tileSize = FromInt(10)
  /\ solid = <<>>
  /\ stl = NoBlob
  /\ numLayers = 0
  /\ layers = <<>>
  /\ maxPoints = 0
  /\ tin = [points |-> <<>>, triangles |-> <<>>]
  /\ rerun = NoRerun
  /\ tileRows \in grid
  /\ tileCols \in grid
  /\ isExporting = FALSE
  /\ exportProgress = <<>>
  /\ error = "null"
  /\ row = 0
  /\ col = 0
  /\ tileData = NoData
  /\ log = <<>>

\* The state before any call with a single tile.
Start(fields) == StartWith(fields, {1})

Init == Start(Heightfields)

\* smoothElevationData(data, p, r)
Smooth(p, r) ==
  /\ pc = "input"
  /\ pc' = "smoothed"
  /\ passes' = p
  /\ radius' = r
  /\ smoothed' = SmoothElevationData(data, p, r)
  /\ UNCHANGED <<data, options, heap, mesh, laplacianPasses, terrain,
                 baseThickness, tileSize, solid, stl,
                 contourVars, tinVars, pageVars>>

\* A faulty call, against which C21 is tested: the positions are added to
\* what the previous call left in a buffer kept between calls.
StoreMeshAccumulating(h, m) ==
  [heap |-> Append(h, IF h # <<>> /\ Len(h[Len(h)]) = Len(m.positions)
                      THEN Array([k \in 1..Len(m.positions) |->
                                   << m.positions[k][1], m.positions[k][2],
                                      ToFloat32(FAdd(h[Len(h)][k][3], m.positions[k][3])) >>])
                      ELSE m.positions),
   mesh |-> [positions |-> Len(h) + 1, indices |-> m.indices, normals |-> m.normals]]

\* The mesh record with its positions placed in the heap.
StoreMesh(h, m) ==
  [heap |-> Alloc(h, m.positions),
   mesh |-> [positions |-> Len(h) + 1, indices |-> m.indices, normals |-> m.normals]]

\* A step's new heap and mesh.
Returns(stored, heapVar, meshVar) == heapVar = stored.heap /\ meshVar = stored.mesh

\* generateGridMesh(data, o)
GridMesh(o) ==
  /\ pc = "input"
  /\ pc' = "meshed"
  /\ options' = o
  /\ Returns(StoreMesh(heap, GenerateGridMesh(data, o)), heap', mesh')
  /\ UNCHANGED <<data, passes, radius, smoothed, laplacianPasses, terrain,
                 baseThickness, tileSize, solid, stl,
                 contourVars, tinVars, pageVars>>

\* The mesh m with the smoothed positions r and its normals computed again.
Relaxed(r, m, vertexCount) ==
  [heap |-> r.heap,
   mesh |-> [positions |-> r.ref, indices |-> m.indices,
             normals |-> CalculateNormals(r.heap[r.ref], m.indices, vertexCount)]]

\* Step 3 of generateTerrainMesh on mesh m of a gridWidth x gridHeight grid:
\* the Laplacian smoothing, then the normals again.
Relax(h, m, gridWidth, gridHeight, lp) ==
  Relaxed(ApplyLaplacianSmoothing(h, m.positions, gridWidth, gridHeight, lp,
                                  DefaultLambda),
          m, gridWidth * gridHeight)

\* applyLaplacianSmoothing(positions, indices, gridWidth, gridHeight, lp) on
\* the mesh of generateGridMesh, and calculateNormals on its result.
Laplacian(lp) ==
  /\ pc = "meshed"
  /\ pc' = "relaxed"
  /\ laplacianPasses' = lp
  /\ Returns(Relax(heap, mesh, GridWidth(data, options), GridHeight(data, options), lp),
             heap', terrain')
  /\ UNCHANGED <<data, passes, radius, smoothed, options, mesh,
                 baseThickness, tileSize, solid, stl,
                 contourVars, tinVars, pageVars>>

\* Steps 2 and 3 of generateTerrainMesh on the smoothed data, as
\* [smoothed, mesh, heap, terrain].
MeshAndRelax(smoothedData, stored, gridWidth, gridHeight, lp) ==
  [smoothed |-> smoothedData, mesh |-> stored.mesh,
   result |-> IF lp > 0
              THEN Relax(stored.heap, stored.mesh, gridWidth, gridHeight, lp)
              ELSE stored]

SmoothAndMesh(h, d, smoothedData, o, lp) ==
  MeshAndRelax(smoothedData, StoreMesh(h, GenerateGridMesh(smoothedData, o)),
               GridWidth(d, o), GridHeight(d, o), lp)

GenerateTerrainMesh(h, d, p, r, lp, o) ==
  SmoothAndMesh(h, d, SmoothElevationData(d, p, r), o, lp)

TerrainReturns(t, smoothedVar, meshVar, heapVar, terrainVar) ==
  /\ smoothedVar = t.smoothed
  /\ meshVar = t.mesh
  /\ Returns(t.result, heapVar, terrainVar)

\* generateTerrainMesh(data, {smoothingPasses: p, smoothingRadius: r,
\* laplacianPasses: lp, ...o}): the three steps in one call.
TerrainMesh(p, r, lp, o) ==
  /\ pc = "input"
  /\ pc' = "relaxed"
  /\ passes' = p
  /\ radius' = r
  /\ options' = o
  /\ laplacianPasses' = lp
  /\ TerrainReturns(GenerateTerrainMesh(heap, data, p, r, lp, o),
                    smoothed', mesh', heap', terrain')
  /\ UNCHANGED <<data, baseThickness, tileSize, solid, stl,
                 contourVars, tinVars, pageVars>>

\* The solid exportToSTL hands to generateBinarySTL: the clone scaled by
\* tileSize / 10, then createSolidMesh.
SolidGeometry(positions, indices, size, thickness) ==
  CreateSolidMesh(ScalePositions(positions, FDiv(size, FromInt(10))),
                  indices, thickness)

\* exportToSTL(geometry, {tileSize: size, baseThickness: thickness}): the
\* solid, then the Blob that is downloaded.
ExportToSTL(size, thickness) ==
  /\ pc = "relaxed"
  /\ pc' = "solid"
  /\ tileSize' = size
  /\ baseThickness' = thickness
  /\ solid' = SolidGeometry(heap[terrain.positions], terrain.indices, size, thickness)
  /\ stl' = GenerateBinarySTL(solid')
  /\ UNCHANGED <<data, passes, radius, smoothed, options, heap, mesh,
                 laplacianPasses, terrain, contourVars, tinVars, pageVars>>

Next ==
  \/ \E p \in PassCounts, r \in Radii : Smooth(p, r)
  \/ \E e \in Exaggerations, d \in Decimations :
       GridMesh(MeshOptions(e, DefaultMeshSize, d))
  \/ \E lp \in PassCounts : Laplacian(lp)
  \/ \E p \in PassCounts, lp \in 0..1, e \in Exaggerations :
       TerrainMesh(p, 1, lp, MeshOptions(e, DefaultMeshSize, 1))
  \/ \E o \in ExportSettings : ExportToSTL(o.tileSize, o.baseThickness)

Spec == Init /\ [][Next]_vars

\* The same steps from the heightfields of at most MaxExportDim columns and
\* rows, for the properties that read every byte of the serialized solid.
ExportInit == Init /\ data.width <= MaxExportDim /\ data.height <= MaxExportDim

ExportSpec == ExportInit /\ [][Next]_vars

\* generateContourLayers(data, n)
Contours(n) ==
  /\ pc = "input"
  /\ pc' = "contoured"
  /\ numLayers' = n
  /\ layers' = GenerateContourLayers(data, n)
  /\ UNCHANGED <<data, pipelineVars, tinVars, pageVars>>

LayerCounts == 1..MaxLayers

\* The contour export: the heightfields above, the cliffs and the ridges,
\* contoured at every layer count.
ContourInit == Start(Heightfields \cup SteepFields \cup RidgeFields)

ContourNext == \E n \in LayerCounts : Contours(n)

ContourSpec == ContourInit /\ [][ContourNext]_vars

\* generateAdaptiveTIN(data, 0.5, n)
AdaptiveTIN(n) ==
  /\ pc = "input"
  /\ pc' = "triangulated"
  /\ maxPoints' = n
  /\ tin' = GenerateAdaptiveTIN(data, DefaultMaxError, n)
  /\ UNCHANGED <<data, pipelineVars, contourVars, pageVars>>

\* The point budgets tried: negative, zero, below the four corners, and up
\* to MaxTinPoints.
PointBudgets == (-1)..MaxTinPoints

TinNext == \E n \in PointBudgets : AdaptiveTIN(n)

TinSpec == Init /\ [][TinNext]_vars

\* A second call's new heap and result.
RerunReturns(stored, o, heapVar, rerunVar) ==
  heapVar = stored.heap /\ rerunVar = [options |-> o, mesh |-> stored.mesh]

\* generateGridMesh(data, o) once more, after a first call
GridMeshAgain(o) ==
  /\ pc = "meshed"
  /\ pc' = "remeshed"
  /\ RerunReturns(StoreMesh(heap, GenerateGridMesh(data, o)), o, heap', rerun')
  /\ UNCHANGED <<data, passes, radius, smoothed, options, mesh, laplacianPasses,
                 terrain, baseThickness, tileSize, solid, stl,
                 contourVars, tinVars, runVars>>

\* The options of generateGridMesh tried.
AllMeshOptions ==
  {MeshOptions(e, DefaultMeshSize, d) : e \in Exaggerations, d \in Decimations}

RerunNext ==
  \/ \E o \in AllMeshOptions : GridMesh(o)
  \/ \E o \in AllMeshOptions : GridMeshAgain(o)

\* Two calls of generateGridMesh on one heightfield, one after the other.
RerunSpec == Init /\ [][RerunNext]_vars

\* delaunayTriangulate on the first k of the points generateAdaptiveTIN
\* selects under a budget of n.
Delaunay(n, k) ==
  /\ pc = "input"
  /\ k <= Len(SelectPoints(data, DefaultMaxError, n))
  /\ pc' = "triangulated"
  /\ maxPoints' = n
  /\ tin' = Triangulated(SubSeq(SelectPoints(data, DefaultMaxError, n), 1, k))
  /\ UNCHANGED <<data, pipelineVars, contourVars, pageVars>>

\* The point sets tried: none, one, two, ... up to all the selected points,
\* selected with no budget and with a budget of MaxTinPoints.
DelaunayNext ==
  \E n \in {0, MaxTinPoints} : \E k \in 0..MaxTinPoints : Delaunay(n, k)

DelaunaySpec == Init /\ [][DelaunayNext]_vars

\* --------------------------------------------------------- handleExportSTL
Event(name, r, c) == [event |-> name, row |-> r, col |-> c]

\* The messages setError is called with.
NoTerrainMessage == "No terrain to export. Generate terrain first."
ExportFailedMessage == "Failed to export STL. Please try again."

\* `Exporting tile ${tileNum}/${totalTiles}...`
ProgressOf(r, c) == <<r * tileCols + c + 1, tileRows * tileCols>>

\* The loop body for tile (r, c) up to its await, done being the events so
\* far: the progress is set, the tile extracted and exported.  If the export
\* throws, catch sets the error and finally resets isExporting and
\* exportProgress; otherwise the run waits for its timer with the progress
\* shown (the error is null since the run began).
ExportTile(r, c, tile, done) ==
  /\ row' = r
  /\ col' = c
  /\ tileData' = tile
  /\ IF ExportThrows(tile)
     THEN /\ log' = Append(done, Event("threw", r, c))
          /\ error' = ExportFailedMessage
          /\ isExporting' = FALSE
          /\ exportProgress' = <<>>
          /\ pc' = "ended"
     ELSE /\ log' = Append(done, Event("exported", r, c))
          /\ error' = "null"
          /\ isExporting' = TRUE
          /\ exportProgress' = ProgressOf(r, c)
          /\ pc' = "pausing"

\* handleExportSTL with no elevationData: the error is set, nothing else.
ExportWithoutTerrain ==
  /\ pc = "input"
  /\ data = NoData
  /\ pc' = "ended"
  /\ error' = NoTerrainMessage
  /\ UNCHANGED <<data, pipelineVars, contourVars, tinVars, rerun, tileRows, tileCols,
                 isExporting, exportProgress, row, col, tileData, log>>

\* handleExportSTL up to its first await: setIsExporting(true),
\* setError(null), then tile (0, 0).  The button is disabled while
\* isExporting.
BeginExport ==
  /\ pc = "input"
  /\ data # NoData
  /\ ~isExporting
  /\ ExportTile(0, 0, ExtractTileElevationData(data, 0, 0, tileRows, tileCols), log)
  /\ UNCHANGED <<data, pipelineVars, contourVars, tinVars, rerun, tileRows, tileCols>>

\* A faulty loop, against which C30 is tested: the rows are the inner loop.
AfterPauseColumnMajor ==
  /\ pc = "pausing"
  /\ IF row + 1 < tileRows
     THEN ExportTile(row + 1, col,
                     ExtractTileElevationData(data, row + 1, col, tileRows, tileCols),
                     Append(log, Event("paused", row, col)))
     ELSE IF col + 1 < tileCols
     THEN ExportTile(0, col + 1,
                     ExtractTileElevationData(data, 0, col + 1, tileRows, tileCols),
                     Append(log, Event("paused", row, col)))
     ELSE /\ pc' = "ended"
          /\ log' = Append(log, Event("paused", row, col))
          /\ isExporting' = FALSE
          /\ exportProgress' = <<>>
          /\ UNCHANGED <<error, row, col, tileData>>
  /\ UNCHANGED <<data, pipelineVars, contourVars, tinVars, rerun, tileRows, tileCols>>

\* The 100 ms timer fires and the run goes on to the next tile in the row,
\* to the first of the next row, or, after the last tile, to
\* setExportProgress('') and finally.
AfterPause ==
  /\ pc = "pausing"
  /\ IF col + 1 < tileCols
     THEN ExportTile(row, col + 1,
                     ExtractTileElevationData(data, row, col + 1, tileRows, tileCols),
                     Append(log, Event("paused", row, col)))
     ELSE IF row + 1 < tileRows
     THEN ExportTile(row + 1, 0,
                     ExtractTileElevationData(data, row + 1, 0, tileRows, tileCols),
                     Append(log, Event("paused", row, col)))
     ELSE /\ pc' = "ended"
          /\ log' = Append(log, Event("paused", row, col))
          /\ isExporting' = FALSE
          /\ exportProgress' = <<>>
          /\ UNCHANGED <<error, row, col, tileData>>
  /\ UNCHANGED <<data, pipelineVars, contourVars, tinVars, rerun, tileRows, tileCols>>

TileGrids == 1..MaxTiles

\* The page with a terrain or none, and a tile grid.
RunInit == StartWith(Heightfields \cup {NoData}, TileGrids)

RunNext == ExportWithoutTerrain \/ BeginExport \/ AfterPause

ExportRunSpec == RunInit /\ [][RunNext]_vars

\* The handler runs when called, and its timer fires.
ExportRunFair == ExportRunSpec /\ WF_vars(RunNext)

\* =========================================================== properties
\* What the properties below read off a state.
TheGridWidth == GridWidth(data, options)
TheGridHeight == GridHeight(data, options)
MeshPositions == heap[mesh.positions]
IsPositive(x) == FLess(Zero, x)
IsNegative(x) == FLess(x, Zero)

\* The z component of (v1 - v0) x (v2 - v0) of a triangle <<v0, v1, v2>>.
FacetZ(tri) == FaceNormal(tri[1], tri[2], tri[3])[3]

\* The grid has cells: at least two columns and two rows after decimation.
HasCells == TheGridWidth >= 2 /\ TheGridHeight >= 2

\* -------------------------------------------------------------------- C1
\* C1: in every mesh generateGridMesh returns for a grid with cells, both
\* triangles of every cell are wound counter-clockwise seen from +z (the z
\* component of (v1 - v0) x (v2 - v0) is strictly positive), and every
\* vertex normal has z > 0.
C1_WindingCounterClockwise ==
  (pc = "meshed" /\ HasCells) =>
    /\ \A t \in 1..Len(mesh.indices) :
         IsPositive(FacetZ(TopTriangle(MeshPositions, mesh.indices[t])))
    /\ \A v \in 1..Len(mesh.normals) : IsPositive(mesh.normals[v][3])

\* A mesh of a 3 x 3 grid whose triangles all have a facet normal with
\* negative z and whose vertex normals all point below the horizon.
C1_ClockwiseMesh ==
  /\ pc = "meshed"
  /\ TheGridWidth = 3 /\ TheGridHeight = 3
  /\ \A t \in 1..Len(mesh.indices) :
       IsNegative(FacetZ(TopTriangle(MeshPositions, mesh.indices[t])))
  /\ \A v \in 1..Len(mesh.normals) : IsNegative(mesh.normals[v][3])

\* -------------------------------------------------------------------- C2
\* The undirected edge j (1, 2, 3) of triangle t of soup s, keyed by the
\* coordinates of its two endpoints.
SoupEdge(s, t, j) == {s[t][j], s[t][(j % 3) + 1]}

\* Every edge of every triangle of s, three per triangle.
SoupEdges(s) ==
  Array([k \in 1..(3 * Len(s)) |->
           SoupEdge(s, ((k - 1) \div 3) + 1, ((k - 1) % 3) + 1)])

\* The triangles (0-based) the edge e belongs to.
TrianglesOn(edges, e) ==
  {(k - 1) \div 3 : k \in {k2 \in 1..Len(edges) : edges[k2] = e}}

EachEdgeTwice(edges) ==
  \A e \in {edges[k] : k \in 1..Len(edges)} : Cardinality(TrianglesOn(edges, e)) = 2

Watertight(s) == EachEdgeTwice(SoupEdges(s))

\* The solid's triangles by part: the top surface comes first, then the
\* bottom cap, then the walls.
TopCount == Len(terrain.indices)
TopPart(t) == solid[t]
BottomPart(t) == solid[TopCount + t]

\* The base level, as stored: it is strictly below every top vertex.
BaseBelowTop ==
  \A t \in 1..TopCount : \A j \in 1..3 :
    FLess(BottomPart(1)[1][3], TopPart(t)[j][3])

C3_BottomCapFacesDown ==
  (pc = "solid" /\ HasCells /\ IsPositive(baseThickness)) =>
    \A t \in 1..TopCount :
      /\ BottomPart(t) = << AtBase(TopPart(t)[1], BottomPart(1)[1][3]),
                            AtBase(TopPart(t)[3], BottomPart(1)[1][3]),
                            AtBase(TopPart(t)[2], BottomPart(1)[1][3]) >>
      /\ IsNegative(FacetZ(BottomPart(t)))

\* A solid with baseThickness 5 whose bottom cap is the reversed projection
\* of the top and whose bottom facets all have a normal with positive z.
C3_BottomCapFacesUp ==
  /\ pc = "solid"
  /\ HasCells
  /\ baseThickness = FromInt(5)
  /\ \A t \in 1..TopCount :
       /\ BottomPart(t) = << AtBase(TopPart(t)[1], BottomPart(1)[1][3]),
                             AtBase(TopPart(t)[3], BottomPart(1)[1][3]),
                             AtBase(TopPart(t)[2], BottomPart(1)[1][3]) >>
       /\ IsPositive(FacetZ(BottomPart(t)))

\* -------------------------------------------------------------------- C4
\* A configuration value that is zero or negative.
InvalidConfig(o) ==
  \/ ~IsPositive(o.verticalExaggeration)
  \/ ~IsPositive(o.meshSize)
  \/ o.decimationFactor < 1

\* C4: an engine operation invoked with a zero or negative configuration
\* value is rejected before any processing: no mesh is returned.
C4_InvalidInputRejected ==
  (pc # "input" /\ InvalidConfig(options)) => (mesh = NoMesh /\ terrain = NoMesh)

\* generateGridMesh has returned a mesh with triangles for a
\* verticalExaggeration of 0.
C4_MeshFromZeroExaggeration ==
  /\ pc = "meshed"
  /\ options.verticalExaggeration = Zero
  /\ Len(mesh.indices) > 0
  /\ Len(MeshPositions) = TheGridWidth * TheGridHeight

\* -------------------------------------------------------------------- C5
\* The source columns (rows) the vertex loop reads.
SampledColumns ==
  {SourceCoord(gx, options.decimationFactor, data.width) : gx \in 0..(TheGridWidth - 1)}
SampledRows ==
  {SourceCoord(gy, options.decimationFactor, data.height) : gy \in 0..(TheGridHeight - 1)}

\* C5: generateGridMesh reads source column min(gx * decimation, width - 1)
\* for every grid column gx (rows likewise), never outside the heightfield,
\* and the last column width - 1 and the last row height - 1 are always
\* among the columns and rows read.
C5_LastRowAndColumnSampled ==
  pc = "meshed" =>
    /\ SampledColumns \subseteq 0..(data.width - 1)
    /\ SampledRows \subseteq 0..(data.height - 1)
    /\ (data.width - 1) \in SampledColumns
    /\ (data.height - 1) \in SampledRows
    /\ \A gx \in 0..(TheGridWidth - 1) : \A gy \in 0..(TheGridHeight - 1) :
         MeshPositions[gy * TheGridWidth + gx + 1][3] =
           ToFloat32(FMul(FSub(data.elevations[
                                 MinInt(gy * options.decimationFactor, data.height - 1)
                                   * data.width
                                 + MinInt(gx * options.decimationFactor, data.width - 1) + 1],
                               data.minElevation),
                          ScaleFactor(data, options)))

\* A mesh of a heightfield 4 wide decimated by 2: two grid columns, reading
\* source columns 0 and 2 and never column 3.
C5_LastColumnSkipped ==
  /\ pc = "meshed"
  /\ data.width = 4
  /\ options.decimationFactor = 2
  /\ TheGridWidth = 2
  /\ SampledColumns = {0, 2}

\* -------------------------------------------------------------------- C6
\* ceil(n / d) = c, stated without the division.
IsCeiling(c, n, d) == c * d >= n /\ (c - 1) * d < n

\* C6: generateGridMesh yields gridWidth * gridHeight vertices and
\* 2 * (gridWidth - 1) * (gridHeight - 1) triangles, gridWidth = ceil(width / d)
\* and gridHeight = ceil(height / d) (N^2 and 2 * (N - 1)^2 for an N x N
\* heightfield with d = 1), and every triangle index is in [0, vertexCount).
C6_VertexAndTriangleCounts ==
  pc = "meshed" =>
    \E gw \in 1..data.width : \E gh \in 1..data.height :
      /\ IsCeiling(gw, data.width, options.decimationFactor)
      /\ IsCeiling(gh, data.height, options.decimationFactor)
      /\ Len(MeshPositions) = gw * gh
      /\ Len(mesh.normals) = gw * gh
      /\ Len(mesh.indices) = 2 * (gw - 1) * (gh - 1)
      /\ \A t \in 1..Len(mesh.indices) : \A j \in 1..3 :
           mesh.indices[t][j] \in 0..(gw * gh - 1)
      /\ (options.decimationFactor = 1 /\ data.width = data.height) =>
           /\ Len(MeshPositions) = data.width * data.width
           /\ Len(mesh.indices) = 2 * (data.width - 1) * (data.width - 1)

\* A 4 x 3 heightfield decimated by 2 (a 2 x 2 grid: 4 vertices, 2
\* triangles, the largest index 3).
C6_DecimatedGrid ==
  /\ pc = "meshed"
  /\ data.width = 4 /\ data.height = 3
  /\ options.decimationFactor = 2
  /\ Len(MeshPositions) = 4
  /\ Len(mesh.indices) = 2
  /\ mesh.indices[2][3] = 3

\* -------------------------------------------------------------------- C7
HalfExtent == FDiv(options.meshSize, FromInt(2))

\* Coordinate c of grid column (row) g of gridSize is defined, lies inside
\* [-meshExtent / 2, meshExtent / 2], and is an end of that interval at the
\* first and the last column (row).
OnExtent(c, g, gridSize) ==
  /\ ~IsNaN(c)
  /\ FLeq(FNeg(HalfExtent), c)
  /\ FLeq(c, HalfExtent)
  /\ g = 0 => c = FNeg(HalfExtent)
  /\ g = gridSize - 1 => c = HalfExtent

\* C7: for every valid input generateGridMesh places grid column gx at
\* x = -meshExtent / 2 + meshExtent * gx / (gridWidth - 1) and row gy at y
\* likewise: column 0 at -meshExtent / 2, the last grid column at
\* +meshExtent / 2, every x and y a defined value inside the interval.
C7_CoordinatesOnExtent ==
  (pc = "meshed" /\ ~InvalidConfig(options)) =>
    \A gx \in 0..(TheGridWidth - 1) : \A gy \in 0..(TheGridHeight - 1) :
      /\ OnExtent(MeshPositions[gy * TheGridWidth + gx + 1][1], gx, TheGridWidth)
      /\ OnExtent(MeshPositions[gy * TheGridWidth + gx + 1][2], gy, TheGridHeight)

\* A 2 x 2 heightfield decimated by 2 under a valid configuration: one
\* vertex, whose x and y are NaN.
C7_UndefinedCoordinate ==
  /\ pc = "meshed"
  /\ ~InvalidConfig(options)
  /\ data.width = 2 /\ data.height = 2
  /\ options.decimationFactor = 2
  /\ Len(MeshPositions) = 1
  /\ IsNaN(MeshPositions[1][1])
  /\ IsNaN(MeshPositions[1][2])

\* -------------------------------------------------------------------- C8
\* smoothElevationData has returned.
HasSmoothed == smoothed # NoData

\* C8: smoothElevationData with passes = 0 is the identity for every
\* heightfield and radius: same width, height, min, max, and the samples
\* equal one by one.
C8_ZeroPassesIdentity ==
  (HasSmoothed /\ passes = 0) =>
    /\ smoothed.width = data.width
    /\ smoothed.height = data.height
    /\ smoothed.minElevation = data.minElevation
    /\ smoothed.maxElevation = data.maxElevation
    /\ Len(smoothed.elevations) = Len(data.elevations)
    /\ \A i \in 1..Len(data.elevations) : smoothed.elevations[i] = data.elevations[i]

\* smoothElevationData(data, 0, 2) has returned for a relief (not flat).
C8_ZeroPassesOnRelief ==
  /\ pc = "smoothed"
  /\ passes = 0
  /\ radius = 2
  /\ data.minElevation # data.maxElevation
  /\ smoothed.elevations = data.elevations

\* -------------------------------------------------------------------- C9
\* C9: for passes >= 1 and radius 1 or 2, every sample smoothElevationData
\* returns lies within [H.min, H.max] of its input H, and the returned min
\* and max are the minimum and maximum of the returned samples, width and
\* height unchanged.
C9_SmoothingBounds ==
  (HasSmoothed /\ passes >= 1) =>
    /\ smoothed.width = data.width
    /\ smoothed.height = data.height
    /\ Len(smoothed.elevations) = data.width * data.height
    /\ \A i \in 1..Len(smoothed.elevations) :
         /\ FLeq(data.minElevation, smoothed.elevations[i])
         /\ FLeq(smoothed.elevations[i], data.maxElevation)
         /\ FLeq(smoothed.minElevation, smoothed.elevations[i])
         /\ FLeq(smoothed.elevations[i], smoothed.maxElevation)
    /\ \E i \in 1..Len(smoothed.elevations) : smoothed.elevations[i] = smoothed.minElevation
    /\ \E i \in 1..Len(smoothed.elevations) : smoothed.elevations[i] = smoothed.maxElevation

\* One blur pass of a flat heightfield has returned a sample below the
\* input's minimum.
C9_SampleBelowMinimum ==
  /\ pc = "smoothed"
  /\ passes = 1
  /\ data.minElevation = data.maxElevation
  /\ \E i \in 1..Len(smoothed.elevations) :
       FLess(smoothed.elevations[i], data.minElevation)

\* ------------------------------------------------------------------- C10
\* Vertex v (1-based) lies inside the grid, on no border row or column.
IsInterior(v, gridWidth, gridHeight) ==
  /\ (v - 1) % gridWidth \in 1..(gridWidth - 2)
  /\ (v - 1) \div gridWidth \in 1..(gridHeight - 2)

\* C10: applyLaplacianSmoothing changes only the z of interior vertices: the
\* result has the x and y of every vertex and the z of every vertex on the
\* first or last row or column as they were in the input, and with
\* passes >= 1 the input positions array is left as it was.
C10_LaplacianFrame ==
  [][(pc = "meshed" /\ pc' = "relaxed") =>
       /\ Len(heap'[terrain'.positions]) = Len(heap[mesh.positions])
       /\ \A v \in 1..Len(heap[mesh.positions]) :
            /\ heap'[terrain'.positions][v][1] = heap[mesh.positions][v][1]
            /\ heap'[terrain'.positions][v][2] = heap[mesh.positions][v][2]
            /\ ~IsInterior(v, TheGridWidth, TheGridHeight) =>
                 heap'[terrain'.positions][v][3] = heap[mesh.positions][v][3]
       /\ laplacianPasses' >= 1 =>
            /\ heap'[mesh.positions] = heap[mesh.positions]
            /\ terrain'.positions # mesh.positions
       /\ laplacianPasses' = 0 => terrain'.positions = mesh.positions]_vars

\* Two Laplacian passes over a 4 x 4 grid have moved an interior z and left
\* the input buffer with the z it had.
C10_InteriorMoved ==
  /\ pc = "relaxed"
  /\ laplacianPasses = 2
  /\ passes = 0 /\ smoothed = NoData
  /\ TheGridWidth = 4 /\ TheGridHeight = 4
  /\ terrain.positions # mesh.positions
  /\ heap[terrain.positions][6][3] # heap[mesh.positions][6][3]

\* ------------------------------------------------------------------- C11
\* z + lambda * (mean of the four orthogonal neighbours' z - z) of vertex v
\* (1-based), every value read from buffer b, stored as a Float32Array
\* element.
JacobiZ(b, v, gridWidth, lambda) ==
  ToFloat32(
    FAdd(b[v][3],
         FMul(lambda,
              FSub(FDiv(FAdd(FAdd(FAdd(b[v - 1][3], b[v + 1][3]),
                                  b[v - gridWidth][3]),
                             b[v + gridWidth][3]),
                        FromInt(4)),
                   b[v][3]))))

\* One pass over b in which every interior vertex is renewed at once from
\* the values of b.
JacobiPass(b, gridWidth, gridHeight, lambda) ==
  Array([v \in 1..Len(b) |->
           IF IsInterior(v, gridWidth, gridHeight)
           THEN <<b[v][1], b[v][2], JacobiZ(b, v, gridWidth, lambda)>>
           ELSE b[v]])

\* A single pass applied k times.
RECURSIVE JacobiPasses(_, _, _, _, _)
JacobiPasses(b, gridWidth, gridHeight, lambda, k) ==
  IF k = 0 THEN b
  ELSE JacobiPasses(JacobiPass(b, gridWidth, gridHeight, lambda),
                    gridWidth, gridHeight, lambda, k - 1)

\* C11: in each pass of applyLaplacianSmoothing every interior vertex's new z
\* is z + lambda * (mean of its 4 neighbours' z - z), z and the neighbours
\* taken as they were at the end of the previous pass; the result of k
\* passes is a single pass applied k times.
C11_LaplacianFromPreviousPass ==
  pc = "relaxed" =>
    heap[terrain.positions] =
      JacobiPasses(heap[mesh.positions], TheGridWidth, TheGridHeight,
                   DefaultLambda, laplacianPasses)

\* Two passes over a 4 x 4 relief: the four interior vertices are
\* neighbours of one another, and the second pass has moved one of them
\* further than the first.
C11_TwoPassesOnRelief ==
  /\ pc = "relaxed"
  /\ laplacianPasses = 2
  /\ TheGridWidth = 4 /\ TheGridHeight = 4
  /\ heap[mesh.positions][6][3] # heap[mesh.positions][7][3]
  /\ heap[terrain.positions][6][3] #
       JacobiPass(heap[mesh.positions], 4, 4, DefaultLambda)[6][3]
  /\ heap[terrain.positions][6][3] # heap[mesh.positions][6][3]

\* ------------------------------------------------------------------- C12
\* The undirected edges of an indexed mesh, and those on one triangle only.
IndexedEdges(indices) ==
  UNION {{{indices[t][1], indices[t][2]}, {indices[t][2], indices[t][3]},
          {indices[t][3], indices[t][1]}} : t \in 1..Len(indices)}

TrianglesWith(indices, e) ==
  Cardinality({t \in 1..Len(indices) :
                 e \subseteq {indices[t][1], indices[t][2], indices[t][3]}})

BoundaryCount(indices) ==
  Cardinality({e \in IndexedEdges(indices) : TrianglesWith(indices, e) = 1})

IsFlat(d) == d.minElevation = d.maxElevation

\* C12: the solid createSolidMesh builds from a top mesh of T triangles and
\* B boundary edges has 2*T + 2*B triangles; for a grid with cells B is
\* 2*(gridWidth-1) + 2*(gridHeight-1); a flat 2x2 heightfield at full
\* resolution with baseThickness 5 gives 12 triangles and 684 bytes of STL.
C12_SolidTriangleCount ==
  pc = "solid" =>
    /\ Len(solid) = 2 * TopCount + 2 * BoundaryCount(terrain.indices)
    /\ HasCells =>
         BoundaryCount(terrain.indices)
           = 2 * (TheGridWidth - 1) + 2 * (TheGridHeight - 1)
    /\ (/\ data.width = 2 /\ data.height = 2 /\ IsFlat(data)
        /\ options.decimationFactor = 1 /\ baseThickness = FromInt(5))
       => Len(solid) = 12 /\ Len(stl.buffer) = 684

\* The flat 2x2 heightfield has been exported with baseThickness 5.
C12_FlatTwoByTwoExported ==
  /\ pc = "solid"
  /\ data.width = 2 /\ data.height = 2 /\ IsFlat(data)
  /\ options.decimationFactor = 1 /\ baseThickness = FromInt(5)
  /\ TopCount = 2 /\ BoundaryCount(terrain.indices) = 4
  /\ Len(solid) = 12 /\ Len(stl.buffer) = 684


\* ------------------------------------------------------------------- C13
\* C13: for every solid, one without triangles included, generateBinarySTL
\* returns a buffer of exactly 84 + 50 * triangleCount bytes, and the write
\* offset after the last record is the buffer length: nothing is written
\* past the end and no tail is left unwritten.
C13_BufferLengthAndOffset ==
  pc = "solid" =>
    /\ ~stl.thrown
    /\ Len(stl.buffer) = 84 + 50 * Len(solid)
    /\ stl.offset = Len(stl.buffer)

\* A solid without triangles (a grid of one column) has been serialized.
C13_EmptySolidSerialized ==
  /\ pc = "solid"
  /\ Len(solid) = 0
  /\ ~stl.thrown
  /\ Len(stl.buffer) = 84
  /\ stl.offset = 84

\* ------------------------------------------------------------------- C14
\* The byte at offset off (from 0) of the serialized buffer.
ByteAt(off) == stl.buffer[off + 1]

\* The little-endian u32 at offset off.
Uint32At(off) ==
  ByteAt(off) + 256 * ByteAt(off + 1) + 65536 * ByteAt(off + 2)
    + 16777216 * ByteAt(off + 3)

\* The number whose binary32 has the given sign bit, biased exponent and
\* fraction.
Binary32Value(sign, biased, fraction) ==
  IF biased = 255 THEN NaN
  ELSE IF biased = 0 /\ fraction = 0 THEN Zero
  ELSE Canon((IF sign = 1 THEN -1 ELSE 1) * (Pow2(23) + fraction),
             biased - 127 - 23)

\* The little-endian f32 at offset off, read back as a number.
Float32At(off) ==
  Binary32Value(ByteAt(off + 3) \div 128,
                (ByteAt(off + 3) % 128) * 2 + (ByteAt(off + 2) \div 128),
                (ByteAt(off + 2) % 128) * 65536 + ByteAt(off + 1) * 256
                  + ByteAt(off))

Vector3At(off) == <<Float32At(off), Float32At(off + 4), Float32At(off + 8)>>

RoundedVector(v) == <<ToFloat32(v[1]), ToFloat32(v[2]), ToFloat32(v[3])>>

\* The normalized (v1 - v0) x (v2 - v0) of the k-th triangle (from 0) of the
\* solid, as a binary32 vector.
StoredNormal(k) == RoundedVector(FacetNormal(solid[k + 1]))

\* C14: in the buffer generateBinarySTL returns, bytes 0..79 are the header
\* text followed by zero bytes only, bytes 80..83 are the triangle count as a
\* little-endian u32, and the record of triangle k starts at 84 + 50 * k:
\* the facet normal (12 bytes), the vertices v0, v1, v2 in the solid's stored
\* order (x, y, z each), and a 2-byte attribute count of 0.
C14_BinaryLayout ==
  (pc = "solid" /\ ~stl.thrown) =>
    /\ \A i \in 0..79 :
         ByteAt(i) = IF i < Len(HeaderText) THEN HeaderText[i + 1] ELSE 0
    /\ Uint32At(80) = Len(solid)
    /\ \A k \in 0..(Len(solid) - 1) :
         /\ Vector3At(84 + 50 * k) = StoredNormal(k)
         /\ \A j \in 0..2 :
              Vector3At(84 + 50 * k + 12 + 12 * j) = solid[k + 1][j + 1]
         /\ ByteAt(84 + 50 * k + 48) = 0
         /\ ByteAt(84 + 50 * k + 49) = 0

\* A relief has been serialized: the record of some triangle holds a normal
\* that is not vertical, and vertices with nonzero coordinates.
C14_ReliefSerialized ==
  /\ pc = "solid" /\ ~stl.thrown
  /\ Len(solid) = 32
  /\ Uint32At(80) = 32
  /\ \E k \in 0..31 :
       /\ Vector3At(84 + 50 * k) = StoredNormal(k)
       /\ ~IsNaN(StoredNormal(k)[1]) /\ StoredNormal(k)[1] # Zero
       /\ Vector3At(84 + 50 * k + 12) = solid[k + 1][1]
       /\ solid[k + 1][1][1] # Zero /\ solid[k + 1][1][3] # Zero

\* ------------------------------------------------------------------- C15
\* min + (max - min) * i / numLayers, as the doubles compute it.
LayerElevation(i) ==
  FAdd(data.minElevation,
       FDiv(FMul(FSub(data.maxElevation, data.minElevation), FromInt(i)),
            FromInt(numLayers)))

\* C15: generateContourLayers with numLayers >= 2 returns exactly
\* numLayers - 1 layers, the i-th at elevation min + (max - min) * i /
\* numLayers; when max > min every threshold is strictly between min and max
\* and the thresholds are strictly increasing.
C15_LayerThresholds ==
  (pc = "contoured" /\ numLayers >= 2) =>
    /\ Len(layers) = numLayers - 1
    /\ \A i \in 1..Len(layers) : layers[i].elevation = LayerElevation(i)
    /\ FLess(data.minElevation, data.maxElevation) =>
         \A i \in 1..Len(layers) :
           /\ FLess(data.minElevation, layers[i].elevation)
           /\ FLess(layers[i].elevation, data.maxElevation)
           /\ i > 1 => FLess(layers[i - 1].elevation, layers[i].elevation)

\* A relief has been contoured at four layers: three thresholds, increasing.
C15_ThreeThresholds ==
  /\ pc = "contoured"
  /\ numLayers = 4
  /\ FLess(data.minElevation, data.maxElevation)
  /\ Len(layers) = 3
  /\ FLess(data.minElevation, layers[1].elevation)
  /\ FLess(layers[1].elevation, layers[2].elevation)
  /\ FLess(layers[2].elevation, layers[3].elevation)
  /\ FLess(layers[3].elevation, data.maxElevation)

\* ------------------------------------------------------------------- C16
\* The samples (by index from 1) at or above the threshold.
SamplesAbove(threshold) ==
  {k \in 1..Len(data.elevations) : AtOrAbove(data.elevations[k], threshold)}

\* Column and row of the sample with index k.
ColumnOf(k) == (k - 1) % data.width
RowOf(k) == (k - 1) \div data.width

IsInteriorSample(k) ==
  /\ 0 < ColumnOf(k) /\ ColumnOf(k) < data.width - 1
  /\ 0 < RowOf(k) /\ RowOf(k) < data.height - 1

\* The threshold isolates one interior sample: it alone is at or above it.
IsolatesInteriorPeak(threshold) ==
  \E k \in SamplesAbove(threshold) :
    SamplesAbove(threshold) = {k} /\ IsInteriorSample(k)

\* The normalized coordinates of sample k.
NormalizedX(k) == FDiv(FromInt(ColumnOf(k)), FromInt(data.width - 1))
NormalizedY(k) == FDiv(FromInt(RowOf(k)), FromInt(data.height - 1))

IsClosedPath(path) == PointsEqual(path[1], path[Len(path)])

\* The path crosses the grid lines through sample k on all four sides of it,
\* within one cell of it.
Surrounds(path, k) ==
  /\ \E j \in 1..Len(path) :
       /\ path[j][2] = NormalizedY(k)
       /\ FLess(NormalizedX(k - 1), path[j][1]) /\ FLess(path[j][1], NormalizedX(k))
  /\ \E j \in 1..Len(path) :
       /\ path[j][2] = NormalizedY(k)
       /\ FLess(NormalizedX(k), path[j][1]) /\ FLess(path[j][1], NormalizedX(k + 1))
  /\ \E j \in 1..Len(path) :
       /\ path[j][1] = NormalizedX(k)
       /\ FLess(NormalizedY(k - data.width), path[j][2])
       /\ FLess(path[j][2], NormalizedY(k))
  /\ \E j \in 1..Len(path) :
       /\ path[j][1] = NormalizedX(k)
       /\ FLess(NormalizedY(k), path[j][2])
       /\ FLess(path[j][2], NormalizedY(k + data.width))

\* C16: when exactly one sample is at or above a layer's threshold and that
\* sample is interior, the layer consists of exactly one polyline, which is
\* closed and surrounds the sample; the 3x3 field with a centre of 10 among
\* zeros, at numLayers = 2, gives one layer at elevation 5 with one closed
\* polyline.
C16_SinglePeakOneClosedLoop ==
  pc = "contoured" =>
    \A i \in 1..Len(layers) :
      IsolatesInteriorPeak(layers[i].elevation) =>
        /\ Len(layers[i].paths) = 1
        /\ IsClosedPath(layers[i].paths[1])
        /\ \A k \in SamplesAbove(layers[i].elevation) :
             Surrounds(layers[i].paths[1], k)

\* The 3x3 example: one layer at elevation 5, one closed polyline of four
\* segments around the centre.
C16_CentrePeakContoured ==
  /\ pc = "contoured"
  /\ data = PeakField(3, 3, 1, 1)
  /\ numLayers = 2
  /\ Len(layers) = 1
  /\ layers[1].elevation = FromInt(5)
  /\ IsolatesInteriorPeak(layers[1].elevation)
  /\ Len(layers[1].paths) = 1
  /\ Len(layers[1].paths[1]) = 5
  /\ layers[1].paths[1][1] = layers[1].paths[1][5]
  /\ Surrounds(layers[1].paths[1], 5)

\* ------------------------------------------------------------------- C17
\* A normalized point on the border of the heightfield: x or y is 0 or 1.
OnBorder(point) ==
  \/ point[1] = Zero \/ point[1] = FromInt(1)
  \/ point[2] = Zero \/ point[2] = FromInt(1)

\* A normalized point strictly inside the heightfield.
StrictlyInside(point) ==
  /\ FLess(Zero, point[1]) /\ FLess(point[1], FromInt(1))
  /\ FLess(Zero, point[2]) /\ FLess(point[2], FromInt(1))

\* C17: every polyline generateContourLayers returns is closed (first and
\* last point coincide within the tolerance) or has both end points on the
\* border of the heightfield; none ends strictly inside it.
C17_PolylinesClosedOrBorderToBorder ==
  pc = "contoured" =>
    \A i \in 1..Len(layers) : \A j \in 1..Len(layers[i].paths) :
      \/ IsClosedPath(layers[i].paths[j])
      \/ /\ OnBorder(layers[i].paths[j][1])
         /\ OnBorder(layers[i].paths[j][Len(layers[i].paths[j])])

\* The 2x3 cliff at two layers: the one polyline of the layer starts at a
\* point strictly inside the heightfield and ends on the border.
C17_PolylineStartsInside ==
  /\ pc = "contoured"
  /\ data = SteepField(2, 3)
  /\ numLayers = 2
  /\ Len(layers[1].paths) = 1
  /\ Len(layers[1].paths[1]) = 3
  /\ StrictlyInside(layers[1].paths[1][1])
  /\ OnBorder(layers[1].paths[1][3])
  /\ ~IsClosedPath(layers[1].paths[1])

\* ------------------------------------------------------------------- C18
\* The returned point set has a point at grid point (x, y) with the
\* elevation of the sample there.
HasPointAt(x, y) ==
  \E k \in 1..Len(tin.points) :
    /\ tin.points[k].x = x /\ tin.points[k].y = y
    /\ tin.points[k].z = data.elevations[y * data.width + x + 1]

\* C18: for every heightfield of at least 2 x 2 samples and every maxPoints,
\* below 4, zero and negative included, the points generateAdaptiveTIN
\* returns contain the four grid corners, each with its sample's elevation.
C18_CornersAlwaysSelected ==
  pc = "triangulated" =>
    /\ HasPointAt(0, 0)
    /\ HasPointAt(data.width - 1, 0)
    /\ HasPointAt(0, data.height - 1)
    /\ HasPointAt(data.width - 1, data.height - 1)

\* A relief triangulated with a negative point budget: the corners are there.
C18_CornersUnderNegativeBudget ==
  /\ pc = "triangulated"
  /\ maxPoints < 0
  /\ ~IsFlat(data)
  /\ data.width >= 3 /\ data.height >= 3
  /\ HasPointAt(0, 0)
  /\ HasPointAt(data.width - 1, 0)
  /\ HasPointAt(0, data.height - 1)
  /\ HasPointAt(data.width - 1, data.height - 1)

\* ------------------------------------------------------------------- C19
\* c: the corners and the border points selected whatever maxPoints is.
MandatoryCount == Len(MandatoryPoints(data))

\* A returned point strictly inside the grid.
IsInteriorPoint(p) ==
  /\ 0 < p.x /\ p.x < data.width - 1
  /\ 0 < p.y /\ p.y < data.height - 1

InteriorPointCount ==
  Cardinality({k \in 1..Len(tin.points) : IsInteriorPoint(tin.points[k])})

\* C19: the number of points generateAdaptiveTIN returns never exceeds
\* max(maxPoints, c); ranked interior points are taken only while the total
\* is below maxPoints, so that with c >= maxPoints no interior point is
\* added at all.
C19_PointBudget ==
  pc = "triangulated" =>
    /\ Len(tin.points) <= MaxInt(maxPoints, MandatoryCount)
    /\ MandatoryCount >= maxPoints => InteriorPointCount = 0

\* A 3 x 4 heightfield, ten mandatory points, triangulated with a budget of
\* nine: an interior point is returned all the same, eleven points in all.
C19_InteriorPointBeyondBudget ==
  /\ pc = "triangulated"
  /\ data.width = 3 /\ data.height = 4
  /\ maxPoints = 9
  /\ MandatoryCount = 10
  /\ InteriorPointCount = 1
  /\ Len(tin.points) = 11

\* ------------------------------------------------------------------- C20
\* C20: for a heightfield whose samples are all equal (max == min)
\* generateGridMesh takes the elevation range as 1: it returns the usual
\* number of vertices and triangles, and the z of every vertex is 0, not NaN.
C20_DegenerateRangeFlatPlane ==
  (pc = "meshed" /\ IsFlat(data)) =>
    /\ ElevationRange(data) = FromInt(1)
    /\ Len(MeshPositions) = TheGridWidth * TheGridHeight
    /\ Len(mesh.indices) = 2 * (TheGridWidth - 1) * (TheGridHeight - 1)
    /\ \A k \in 1..Len(MeshPositions) : MeshPositions[k][3] = Zero

\* A flat 3 x 3 heightfield of elevation 10, meshed at full resolution with
\* exaggeration 1.5: nine vertices at z = 0 and eight triangles.
C20_FlatFieldMeshed ==
  /\ pc = "meshed"
  /\ data = FlatField(3, 3)
  /\ options.decimationFactor = 1
  /\ options.verticalExaggeration = Literal(3, 2)
  /\ Len(MeshPositions) = 9
  /\ Len(mesh.indices) = 8
  /\ \A k \in 1..9 : MeshPositions[k][3] = Zero

C22_ConstantFieldUnchanged ==
  (pc = "smoothed" /\ IsFlat(data) /\ passes >= 1) =>
    \A i \in 1..Len(smoothed.elevations) :
      smoothed.elevations[i] = data.elevations[i]

\* The 2 x 2 heightfield of 10s after one pass of radius 1: the size is kept,
\* no sample is NaN, and a sample differs from 10.
C22_ConstantFieldAltered ==
  /\ pc = "smoothed"
  /\ data = FlatField(2, 2)
  /\ passes = 1 /\ radius = 1
  /\ Len(smoothed.elevations) = 4
  /\ \A i \in 1..4 : ~IsNaN(smoothed.elevations[i])
  /\ \E i \in 1..4 : smoothed.elevations[i] # FromInt(10)

\* ------------------------------------------------------------------- C23
\* The two corners (as positions in <<v0, v1, v2, v3>>) a cell edge runs
\* between: bottom, right, top, left.
EdgeCorners(edge) ==
  CASE edge = 0 -> <<1, 2>>
    [] edge = 1 -> <<2, 3>>
    [] edge = 2 -> <<4, 3>>
    [] edge = 3 -> <<1, 4>>

\* The edge's corner values bracket the threshold: one is at or above it,
\* the other below.
Brackets(v, edge, threshold) ==
  AtOrAbove(v[EdgeCorners(edge)[1]], threshold)
    # AtOrAbove(v[EdgeCorners(edge)[2]], threshold)

\* a <= x <= b
Within(x, a, b) == FLeq(a, x) /\ FLeq(x, b)

\* The point p lies on the given edge of cell (x, y).
OnCellEdge(p, edge, x, y) ==
  CASE edge = 0 -> p[2] = FromInt(y) /\ Within(p[1], FromInt(x), FromInt(x + 1))
    [] edge = 1 -> p[1] = FromInt(x + 1) /\ Within(p[2], FromInt(y), FromInt(y + 1))
    [] edge = 2 -> p[2] = FromInt(y + 1) /\ Within(p[1], FromInt(x), FromInt(x + 1))
    [] edge = 3 -> p[1] = FromInt(x) /\ Within(p[2], FromInt(y), FromInt(y + 1))

SegmentsOfCase(caseIndex) ==
  IF caseIndex \in {0, 15} THEN 0 ELSE IF caseIndex \in {5, 10} THEN 2 ELSE 1

\* How many segment ends of the table entry use the edge.
EndsOn(edges, edge) ==
  Cardinality({e \in (1..Len(edges)) \X {1, 2} : edges[e[1]][e[2]] = edge})

\* The table entry of a case and the end points made from it are as claimed.
EntryAsClaimed(edges, caseIndex, x, y, v, threshold) ==
  /\ Len(edges) = SegmentsOfCase(caseIndex)
  /\ \A k \in 1..Len(edges) : \A j \in 1..2 :
       /\ edges[k][j] \in 0..3
       /\ Brackets(v, edges[k][j], threshold)
       /\ OnCellEdge(GetEdgePoint(edges[k][j], x, y, v, threshold), edges[k][j], x, y)
  /\ \A edge \in 0..3 :
       EndsOn(edges, edge) = IF Brackets(v, edge, threshold) THEN 1 ELSE 0

CornersAsClaimed(x, y, v, threshold) ==
  /\ CellSegments(x, y, v, threshold)
       = EdgeSegments(MARCHING_SQUARES_EDGES[CaseIndex(v, threshold) + 1],
                      x, y, v, threshold)
  /\ EntryAsClaimed(MARCHING_SQUARES_EDGES[CaseIndex(v, threshold) + 1],
                    CaseIndex(v, threshold), x, y, v, threshold)

CellAsClaimed(c, threshold) ==
  CornersAsClaimed(c % (data.width - 1), c \div (data.width - 1),
                   CornerValues(data, c % (data.width - 1), c \div (data.width - 1)),
                   threshold)

InUnitSquare(p) == Within(p[1], Zero, FromInt(1)) /\ Within(p[2], Zero, FromInt(1))

\* The case of cell c of the heightfield at layer i.
CaseOfCell(c, i) ==
  CaseIndex(CornerValues(data, c % (data.width - 1), c \div (data.width - 1)),
            layers[i].elevation)

CellsOfData == 0..((data.width - 1) * (data.height - 1) - 1)

\* C23: in every cell and at every threshold the table gives no segment for
\* cases 0 and 15, two for cases 5 and 10 and one otherwise; every segment
\* end is placed on a cell edge whose corner values bracket the threshold,
\* every such edge carrying exactly one end; every end lies on its cell's
\* border and every returned coordinate lies in [0, 1].
C23_SegmentsOnBracketingEdges ==
  pc = "contoured" =>
    \A i \in 1..Len(layers) :
      /\ \A c \in CellsOfData : CellAsClaimed(c, layers[i].elevation)
      /\ \A k \in 1..Len(layers[i].paths) :
           \A j \in 1..Len(layers[i].paths[k]) : InUnitSquare(layers[i].paths[k][j])

\* Some cell of the heightfield is of the given case at some layer, and is
\* as claimed.
CaseContoured(caseIndex) ==
  \E i \in 1..Len(layers) : \E c \in CellsOfData :
    /\ CaseOfCell(c, i) = caseIndex
    /\ CellAsClaimed(c, layers[i].elevation)

\* A rough 4 x 4 heightfield contoured: among its cells are a saddle (case
\* 5), with two segments on its four edges, and a cell wholly at or above the
\* threshold (case 15), with none.
C23_SaddleCellContoured ==
  /\ pc = "contoured"
  /\ data = RoughField(4, 4)
  /\ CaseContoured(5)
  /\ CaseContoured(15)

\* ------------------------------------------------------------------- C24
\* Corner j of top triangle t (TopPart(t)) is vertex terrain.indices[t][j].
NextCorner(j) == (j % 3) + 1

\* The corners <<t, j>> whose edge to the next corner belongs to no other
\* triangle.
BoundaryCorners ==
  {c \in (1..TopCount) \X (1..3) :
     TrianglesWith(terrain.indices,
                   {terrain.indices[c[1]][c[2]],
                    terrain.indices[c[1]][NextCorner(c[2])]}) = 1}

\* The least z of the top vertices.
LeastTopZ ==
  CHOOSE z \in {solid[t][j][3] : t \in 1..TopCount, j \in 1..3} :
    \A t \in 1..TopCount : \A j \in 1..3 : FLeq(z, solid[t][j][3])

\* (minimum z) - baseThickness, as stored in the solid.
ExpectedBaseLevel == ToFloat32(FSub(LeastTopZ, baseThickness))

Lowered(p) == <<p[1], p[2], ExpectedBaseLevel>>

\* The two wall triangles below the edge from p1 to p2.
ExpectedWall(p1, p2) ==
  << <<p1, p2, Lowered(p1)>>, <<p2, Lowered(p2), Lowered(p1)>> >>

ExpectedWalls ==
  {ExpectedWall(solid[c[1]][c[2]], solid[c[1]][NextCorner(c[2])]) : c \in BoundaryCorners}

\* The wall triangles of the solid, two by two.
WallPairs ==
  {<<solid[2 * TopCount + 2 * k - 1], solid[2 * TopCount + 2 * k]>> :
     k \in 1..((Len(solid) - 2 * TopCount) \div 2)}

\* C24: the walls of the solid are, for every edge of the top mesh that
\* belongs to exactly one triangle, the two triangles (p1, p2, p1 at
\* baseLevel) and (p2, p2 at baseLevel, p1 at baseLevel), baseLevel being the
\* least z of the top vertices less baseThickness, each edge once; an edge
\* shared by triangles gets no wall.
C24_WallsBelowBoundaryEdges ==
  (pc = "solid" /\ TopCount > 0) =>
    /\ Len(solid) = 2 * TopCount + 2 * Cardinality(BoundaryCorners)
    /\ Cardinality(WallPairs) = Cardinality(BoundaryCorners)
    /\ WallPairs = ExpectedWalls

\* A relief of 3 x 3 samples exported on a base of 5: eight top triangles,
\* eight boundary edges among their sixteen edges, sixteen wall triangles.
C24_ReliefWalled ==
  /\ pc = "solid"
  /\ data.width = 3 /\ data.height = 3
  /\ ~IsFlat(data)
  /\ baseThickness = FromInt(5)
  /\ TopCount = 8
  /\ Cardinality(IndexedEdges(terrain.indices)) = 16
  /\ Cardinality(BoundaryCorners) = 8
  /\ Cardinality(WallPairs) = 8
  /\ WallPairs = ExpectedWalls

\* ------------------------------------------------------------------- C25
\* Point k of the triangulation's input, as <<x, y>>.
PointAt(k) == <<tin.points[k].x, tin.points[k].y>>

PairwiseDistinct ==
  \A j, k \in 1..Len(tin.points) : PointAt(j) = PointAt(k) => j = k

\* Twice the signed area of triangle a, b, c.
TwiceArea(a, b, c) ==
  (b[1] - a[1]) * (c[2] - a[2]) - (b[2] - a[2]) * (c[1] - a[1])

SquaredNorm(x, y) == x * x + y * y

\* The determinant of the rows (x, y, x^2 + y^2) of a, b and c.
LiftedDet(ax, ay, bx, by, cx, cy) ==
  ax * (by * SquaredNorm(cx, cy) - SquaredNorm(bx, by) * cy)
  - ay * (bx * SquaredNorm(cx, cy) - SquaredNorm(bx, by) * cx)
  + SquaredNorm(ax, ay) * (bx * cy - by * cx)

\* p lies strictly inside the circle through a, b and c (which are not
\* collinear).
StrictlyInCircle(p, a, b, c) ==
  TwiceArea(a, b, c)
    * LiftedDet(a[1] - p[1], a[2] - p[2], b[1] - p[1], b[2] - p[2],
                c[1] - p[1], c[2] - p[2]) > 0

IsDegenerate(tri) == TwiceArea(PointAt(tri[1]), PointAt(tri[2]), PointAt(tri[3])) = 0

HoldsPointInside(tri) ==
  \E k \in 1..Len(tin.points) :
    StrictlyInCircle(PointAt(k), PointAt(tri[1]), PointAt(tri[2]), PointAt(tri[3]))

\* C25: the points generateAdaptiveTIN selects being pairwise distinct, no
\* triangle delaunayTriangulate returns has zero area, and none has an input
\* point strictly inside its circumcircle.
C25_EmptyCircumcircles ==
  (pc = "triangulated" /\ PairwiseDistinct) =>
    \A t \in 1..Len(tin.triangles) :
      /\ ~IsDegenerate(tin.triangles[t])
      /\ ~HoldsPointInside(tin.triangles[t])

\* A rough 4 x 4 heightfield triangulated with a budget of 16: all sixteen
\* grid points, many of them on a common circle, in eighteen triangles.
C25_FullGridTriangulated ==
  /\ pc = "triangulated"
  /\ data = RoughField(4, 4)
  /\ maxPoints = 16
  /\ Len(tin.points) = 16
  /\ PairwiseDistinct
  /\ Len(tin.triangles) = 18
  /\ \A t \in 1..18 : ~IsDegenerate(tin.triangles[t])
  /\ \A t \in 1..18 : ~HoldsPointInside(tin.triangles[t])

\* ------------------------------------------------------------------- C26
\* The three indices of a triangle are distinct input points (counted from 1
\* here, from 0 in the code), none of them a corner of the super-triangle
\* (the three indices after the last input point).
RefersToInputPoints(tri) ==
  /\ \A j \in 1..3 : tri[j] \in 1..Len(tin.points)
  /\ tri[1] # tri[2] /\ tri[2] # tri[3] /\ tri[1] # tri[3]

\* C26: every triangle delaunayTriangulate returns has three distinct
\* indices of input points, never one of the super-triangle; with fewer than
\* three input points it returns no triangle.
C26_OnlyInputPoints ==
  pc = "triangulated" =>
    /\ \A t \in 1..Len(tin.triangles) : RefersToInputPoints(tin.triangles[t])
    /\ Len(tin.points) < 3 => tin.triangles = <<>>

\* Five points triangulated, the four corners of a 3 x 3 grid among them:
\* three triangles at least, on input points only.
C26_FivePointsTriangulated ==
  /\ pc = "triangulated"
  /\ data.width = 3 /\ data.height = 3
  /\ Len(tin.points) = 5
  /\ Len(tin.triangles) >= 3
  /\ \A t \in 1..Len(tin.triangles) : RefersToInputPoints(tin.triangles[t])

\* ------------------------------------------------------------------- C27
\* The selection after the corners, the border points and the ranked
\* interior points.
BeforeBaselineGrid ==
  WithTopPoints(data, MandatoryPoints(data),
                SortByScore(ImportanceScores(data, DefaultMaxError)), maxPoints)

\* The interior points of the fallback grid: x and y multiples of gridStep.
FallbackGridPoints ==
  {p \in (1..(data.width - 2)) \X (1..(data.height - 2)) :
     /\ p[1] % GridStep(data, maxPoints - Len(BeforeBaselineGrid)) = 0
     /\ p[2] % GridStep(data, maxPoints - Len(BeforeBaselineGrid)) = 0}

\* C27: whenever the selection after corners, border points and ranked
\* interior points is below maxPoints, the fallback grid's points not yet
\* selected are added until maxPoints is reached or the grid is exhausted.
C27_FallbackGridWhileBudgetRemains ==
  (pc = "triangulated" /\ Len(BeforeBaselineGrid) < maxPoints) =>
    \/ Len(tin.points) >= maxPoints
    \/ \A p \in FallbackGridPoints : HasPointAt(p[1], p[2])

\* The flat 4 x 4 heightfield with a budget of 14: the twelve border points
\* are returned and the fallback grid's point (2, 2) is not, two short of
\* the budget.
C27_GridPointLeftOut ==
  /\ pc = "triangulated"
  /\ data = FlatField(4, 4)
  /\ maxPoints = 14
  /\ Len(BeforeBaselineGrid) = 12
  /\ <<2, 2>> \in FallbackGridPoints
  /\ ~HasPointAt(2, 2)
  /\ Len(tin.points) = 12

\* ------------------------------------------------------------------- C28
\* The Heightfield invariant: as many samples as width * height, at least
\* two columns and two rows, every sample between min and max.
IsHeightfield(d) ==
  /\ Len(d.elevations) = d.width * d.height
  /\ d.width >= 2
  /\ d.height >= 2
  /\ \A i \in 1..Len(d.elevations) :
       FLeq(d.minElevation, d.elevations[i]) /\ FLeq(d.elevations[i], d.maxElevation)

\* A tile has been handed to exportTerrainToSTL.
TileHandedOver == Len(log) > 0 /\ log[Len(log)].event \in {"exported", "threw"}

\* C28: the full heightfield satisfying the Heightfield invariant and the
\* tile grid having at least one row and one column, every tile
\* extractTileElevationData hands to exportTerrainToSTL satisfies the
\* invariant again.
C28_TilesAreHeightfields ==
  (TileHandedOver /\ IsHeightfield(data) /\ tileRows >= 1 /\ tileCols >= 1) =>
    IsHeightfield(tileData)

\* A heightfield of three columns in a grid of two tile columns: the first
\* tile handed over is one column wide.
C28_TileOfOneColumn ==
  /\ TileHandedOver
  /\ IsHeightfield(data)
  /\ data.width = 3
  /\ tileCols = 2 /\ tileRows = 1
  /\ row = 0 /\ col = 0
  /\ tileData.width = 1
  /\ tileData.height = data.height
  /\ Len(tileData.elevations) = data.height

\* ------------------------------------------------------------------- C29
\* The raw segments of layer i, as marchingSquares returns them.
RawSegments(i) == MarchingSquares(data, layers[i].elevation)

\* The two points are, after normalization, the two end points of one of the
\* segments, in either order.
EndPointsOfOne(segments, p, q) ==
  \E s \in 1..Len(segments) :
    \/ NormalizePath(segments[s], data.width, data.height) = <<p, q>>
    \/ NormalizePath(segments[s], data.width, data.height) = <<q, p>>

\* The sum over the polylines of (point count - 1).
RECURSIVE PolylineEdges(_, _)
PolylineEdges(paths, k) ==
  IF k > Len(paths) THEN 0 ELSE (Len(paths[k]) - 1) + PolylineEdges(paths, k + 1)

\* Every segment contributes one edge, and every polyline has two points or
\* more.
SegmentsCounted(paths, segments) ==
  /\ PolylineEdges(paths, 1) = Len(segments)
  /\ \A k \in 1..Len(paths) : Len(paths[k]) >= 2

\* Every pair of consecutive points of every polyline is one raw segment.
EdgesAreSegments(paths, segments) ==
  \A k \in 1..Len(paths) :
    \A j \in 1..(Len(paths[k]) - 1) :
      EndPointsOfOne(segments, paths[k][j], paths[k][j + 1])

\* C29: connectSegments uses every raw segment exactly once: the polylines of
\* a layer have as many edges as there are raw segments, every polyline has
\* at least 2 points, and every two consecutive points of a polyline are,
\* after normalization, the two end points of one raw segment.
C29_EverySegmentOneEdge ==
  pc = "contoured" =>
    \A i \in 1..Len(layers) :
      /\ SegmentsCounted(layers[i].paths, RawSegments(i))
      /\ EdgesAreSegments(layers[i].paths, RawSegments(i))

\* The counting half of C29 alone.
C29_EdgesCounted ==
  pc = "contoured" =>
    \A i \in 1..Len(layers) : SegmentsCounted(layers[i].paths, RawSegments(i))

\* The 2x3 cliff at two layers: two raw segments, one polyline of three
\* points, and its last two points are not the ends of a raw segment.
C29_EdgeOfNoSegment ==
  /\ pc = "contoured"
  /\ data = SteepField(2, 3)
  /\ numLayers = 2
  /\ Len(RawSegments(1)) = 2
  /\ Len(layers[1].paths) = 1
  /\ Len(layers[1].paths[1]) = 3
  /\ ~EndPointsOfOne(RawSegments(1), layers[1].paths[1][2], layers[1].paths[1][3])

\* ------------------------------------------------------------------- C30
\* The tile the k-th export of a run is for, in row-major order.
TileOfTurn(k) == <<(k - 1) \div tileCols, (k - 1) % tileCols>>

\* The j-th event of the run belongs to the tile whose turn it is: the odd
\* events are the exports (or the throw that ends the run), each followed by
\* that tile's pause.
EventInTurn(j) ==
  /\ (j + 1) \div 2 <= tileRows * tileCols
  /\ <<log[j].row, log[j].col>> = TileOfTurn((j + 1) \div 2)
  /\ IF j % 2 = 1
     THEN log[j].event \in {"exported", "threw"}
     ELSE log[j].event = "paused" /\ log[j - 1].event = "exported"
  /\ log[j].event = "threw" => j = Len(log)

\* One tile after another in row-major order, each at most once, each export
\* after the export and the pause of the tile before.
TilesInTurn == \A j \in 1..Len(log) : EventInTurn(j)

\* The run is over with isExporting false and exportProgress empty.
EndedClean == pc = "ended" => (~isExporting /\ exportProgress = <<>>)

\* C30: an export run with a tileRows x tileCols grid exports the tiles one
\* after another in row-major order, each tile at most once and each only
\* after the export and the pause of the tile before it; the run always
\* ends, and when it has ended, after the last tile or after a throw,
\* isExporting is false and exportProgress is empty.
C30_SequentialRunEnds ==
  /\ [](TilesInTurn /\ EndedClean)
  /\ <>(pc = "ended")

\* A run over a 2 x 3 grid has ended with all six tiles exported and paused,
\* the fourth of them being tile (1, 0).
C30_SixTilesExported ==
  /\ pc = "ended"
  /\ tileRows = 2
  /\ tileCols = 3
  /\ Len(log) = 12
  /\ log[7] = Event("exported", 1, 0)
  /\ log[12] = Event("paused", 1, 2)
  /\ ~isExporting
  /\ exportProgress = <<>>

====
